---- MODULE Spec2Model ----
(***************************************************************************)
(* Model of the API gateway (api-gateway.ts, retry.ts, load-balancer.ts,   *)
(* api.ts, index.ts): the per-request proxy pipeline, the retry policy,    *)
(* the header filters, the error shaper and the registration /             *)
(* health-check state machine.                                             *)
(*                                                                         *)
(* JavaScript runs each handler to its next await without interleaving,    *)
(* so one action is the code from one suspension point to the next.        *)
(***************************************************************************)
EXTENDS Integers, Sequences, FiniteSets, TLC

(***************************************************************************)
(* Bounds of the model.                                                    *)
(***************************************************************************)
\* number of inbound requests handled concurrently
MaxReqs == 1
\* longest instance list the registry returns
MaxInstances == 2
\* largest attempt number passed to shouldRetry in the pure-function check
MaxAttemptArg == 5
\* direct selectInstance calls made on one balancer
MaxCalls == 4
\* longest instance list passed to a direct selectInstance call
MaxLbInstances == 3
\* largest attempt number passed to a direct delay call
MaxDelayAttempt == 4

(***************************************************************************)
(* Strings of header names are sequences of one-character strings, so that *)
(* toLowerCase and startsWith are computed and not assumed.                *)
(***************************************************************************)
UpperToLower ==
  [c \in {"A","B","C","D","E","F","G","H","I","J","K","L","M","N","O","P",
          "Q","R","S","T","U","V","W","X","Y","Z"} |->
     CASE c = "A" -> "a" [] c = "B" -> "b" [] c = "C" -> "c" [] c = "D" -> "d"
       [] c = "E" -> "e" [] c = "F" -> "f" [] c = "G" -> "g" [] c = "H" -> "h"
       [] c = "I" -> "i" [] c = "J" -> "j" [] c = "K" -> "k" [] c = "L" -> "l"
       [] c = "M" -> "m" [] c = "N" -> "n" [] c = "O" -> "o" [] c = "P" -> "p"
       [] c = "Q" -> "q" [] c = "R" -> "r" [] c = "S" -> "s" [] c = "T" -> "t"
       [] c = "U" -> "u" [] c = "V" -> "v" [] c = "W" -> "w" [] c = "X" -> "x"
       [] c = "Y" -> "y" [] c = "Z" -> "z"]

\* String.prototype.toLowerCase
ToLowerCase(k) ==
  [i \in 1..Len(k) |-> IF k[i] \in DOMAIN UpperToLower THEN UpperToLower[k[i]] ELSE k[i]]

\* String.prototype.startsWith
StartsWith(s, p) == Len(s) >= Len(p) /\ SubSeq(s, 1, Len(p)) = p

h_host == <<"h","o","s","t">>
h_connection == <<"c","o","n","n","e","c","t","i","o","n">>
h_content_length == <<"c","o","n","t","e","n","t","-","l","e","n","g","t","h">>
h_transfer_encoding ==
  <<"t","r","a","n","s","f","e","r","-","e","n","c","o","d","i","n","g">>
h_authorization == <<"a","u","t","h","o","r","i","z","a","t","i","o","n">>
h_keep_alive == <<"k","e","e","p","-","a","l","i","v","e">>
h_proxy_authenticate ==
  <<"p","r","o","x","y","-","a","u","t","h","e","n","t","i","c","a","t","e">>
h_proxy_authorization ==
  <<"p","r","o","x","y","-","a","u","t","h","o","r","i","z","a","t","i","o","n">>
h_te == <<"t","e">>
h_trailer == <<"t","r","a","i","l","e","r">>
h_upgrade == <<"u","p","g","r","a","d","e">>
h_x_internal_ == <<"x","-","i","n","t","e","r","n","a","l","-">>

EXCLUDED_REQUEST_HEADERS ==
  {h_host, h_connection, h_content_length, h_transfer_encoding, h_authorization}

EXCLUDED_RESPONSE_HEADERS ==
  {h_connection, h_keep_alive, h_proxy_authenticate, h_proxy_authorization,
   h_te, h_trailer, h_transfer_encoding, h_upgrade, h_x_internal_}

\* A header object is a function from its keys to their values.
NoHeaders == [k \in {} |-> ""]

filterRequestHeaders(headers) ==
  [k \in {x \in DOMAIN headers : ToLowerCase(x) \notin EXCLUDED_REQUEST_HEADERS}
     |-> headers[k]]

filterResponseHeaders(headers) ==
  [k \in {x \in DOMAIN headers :
            /\ ~StartsWith(ToLowerCase(x), h_x_internal_)
            /\ ToLowerCase(x) \notin EXCLUDED_RESPONSE_HEADERS}
     |-> headers[k]]


(***************************************************************************)
(* Errors.  An error value is a record of one shape: kind is the runtime    *)
(* class, code the AxiosError code or the ApiGatewayError code, status the *)
(* ApiGatewayError status, request / hasResponse whether err.request and   *)
(* err.response are set, response the backend's HTTP response.             *)
(***************************************************************************)
\* JavaScript's undefined
undefined == "<undefined>"

\* resData of a response without an error envelope
NoBody == [error |-> "none", code |-> "", message |-> ""]

NoHttpResponse == [status |-> 0, headers |-> NoHeaders, data |-> NoBody]

AxiosResponseError(st, hdrs, body) ==
  [kind |-> "AxiosError", code |-> "ERR_BAD_RESPONSE", status |-> 0,
   message |-> "Request failed", request |-> TRUE, hasResponse |-> TRUE,
   response |-> [status |-> st, headers |-> hdrs, data |-> body]]

\* the per-request timeout of the outbound call elapsed
AxiosTimeoutError ==
  [kind |-> "AxiosError", code |-> "ECONNABORTED", status |-> 0,
   message |-> "timeout exceeded", request |-> TRUE, hasResponse |-> FALSE,
   response |-> NoHttpResponse]

\* the request was sent and no response came back
AxiosNoResponseError ==
  [kind |-> "AxiosError", code |-> "ECONNREFUSED", status |-> 0,
   message |-> "connect ECONNREFUSED", request |-> TRUE, hasResponse |-> FALSE,
   response |-> NoHttpResponse]

\* the request could not be set up
AxiosSetupError ==
  [kind |-> "AxiosError", code |-> "ERR_INVALID_URL", status |-> 0,
   message |-> "Invalid URL", request |-> FALSE, hasResponse |-> FALSE,
   response |-> NoHttpResponse]

ApiGatewayError(st, code, message) ==
  [kind |-> "ApiGatewayError", code |-> code, status |-> st,
   message |-> message, request |-> FALSE, hasResponse |-> FALSE,
   response |-> NoHttpResponse]

PlainError(message) ==
  [kind |-> "Error", code |-> "", status |-> 0,
   message |-> message, request |-> FALSE, hasResponse |-> FALSE,
   response |-> NoHttpResponse]

GatewayStatuses ==
  {"GATEWAY_STARTING", "REGISTRY_HEALTH_CHECK_FAIL", "GATEWAY_ACTIVE",
   "SHUTTING_DOWN", "ATTEMPTING_REREGISTRATION"}

\* mutant: the error code is a fixed string instead of the status
fromStatus_FixedCode(st) ==
  ApiGatewayError(503, "GATEWAY_ERROR",
    CASE st = "ATTEMPTING_REREGISTRATION" ->
           "Attempting to re-register with service registry. Check back shortly"
      [] st = "REGISTRY_HEALTH_CHECK_FAIL" ->
           "Health check on service registry failed, attempting retry. Check back shortly"
      [] st = "SHUTTING_DOWN" ->
           "Gateway has encountered an error and is shutting down"
      [] OTHER -> "Gateway is starting. Please check back shortly")

fromStatus(st) ==
  ApiGatewayError(503, st,
    CASE st = "ATTEMPTING_REREGISTRATION" ->
           "Attempting to re-register with service registry. Check back shortly"
      [] st = "REGISTRY_HEALTH_CHECK_FAIL" ->
           "Health check on service registry failed, attempting retry. Check back shortly"
      [] st = "SHUTTING_DOWN" ->
           "Gateway has encountered an error and is shutting down"
      [] OTHER -> "Gateway is starting. Please check back shortly")

(***************************************************************************)
(* RetryStrategy.shouldRetry.  cfg is the strategy object: maxRetries and  *)
(* retryableStatus.                                                        *)
(***************************************************************************)
\* mutant: an ApiGatewayError is never retried
shouldRetry_AxiosOnly(cfg, err, attempt) ==
  IF err.kind = "AxiosError" /\ err.code = "ECONNABORTED"
    THEN attempt < cfg.maxRetries
  ELSE IF err.kind = "AxiosError" /\ err.hasResponse
    THEN attempt < cfg.maxRetries /\ err.response.status \in cfg.retryableStatus
  ELSE FALSE

\* mutant: off by one in the attempt bound
shouldRetry_OffByOne(cfg, err, attempt) ==
  IF err.kind = "AxiosError" /\ err.code = "ECONNABORTED"
    THEN attempt + 1 < cfg.maxRetries
  ELSE IF err.kind = "AxiosError" /\ err.hasResponse
    THEN attempt + 1 < cfg.maxRetries /\ err.response.status \in cfg.retryableStatus
  ELSE IF err.kind = "ApiGatewayError"
    THEN attempt + 1 < cfg.maxRetries /\ err.status \in cfg.retryableStatus
  ELSE FALSE

\* mutant: the status filter is dropped
shouldRetry_AnyStatus(cfg, err, attempt) ==
  IF err.kind = "AxiosError" /\ err.code = "ECONNABORTED"
    THEN attempt < cfg.maxRetries
  ELSE IF err.kind = "AxiosError" /\ err.hasResponse
    THEN attempt < cfg.maxRetries
  ELSE IF err.kind = "ApiGatewayError"
    THEN attempt < cfg.maxRetries
  ELSE FALSE

\* mutant: the attempt bound is dropped
shouldRetry_NoBound(cfg, err, attempt) ==
  IF err.kind = "AxiosError" /\ err.code = "ECONNABORTED"
    THEN TRUE
  ELSE IF err.kind = "AxiosError" /\ err.hasResponse
    THEN err.response.status \in cfg.retryableStatus
  ELSE IF err.kind = "ApiGatewayError"
    THEN err.status \in cfg.retryableStatus
  ELSE FALSE

\* RetryStrategy.shouldRetry
shouldRetry(cfg, err, attempt) ==
  IF err.kind = "AxiosError" /\ err.code = "ECONNABORTED"
    THEN attempt < cfg.maxRetries
  ELSE IF err.kind = "AxiosError" /\ err.hasResponse
    THEN attempt < cfg.maxRetries /\ err.response.status \in cfg.retryableStatus
  ELSE IF err.kind = "ApiGatewayError"
    THEN attempt < cfg.maxRetries /\ err.status \in cfg.retryableStatus
  ELSE FALSE

(***************************************************************************)
(* RetryStrategy.delay: the duration handed to setTimeout, in milliseconds. *)
(***************************************************************************)
RECURSIVE Pow2(_)
\* Math.pow(2, n)
Pow2(n) == IF n <= 0 THEN 1 ELSE 2 * Pow2(n - 1)

Min(a, b) == IF a < b THEN a ELSE b

\* mutant: the exponential delay is not capped
delay_NoCap(cfg, attempt, jitter) == cfg.baseDelay * Pow2(attempt) + jitter

\* mutant: the exponential delay wraps around at maxDelay instead of being capped
delay_Wrap(cfg, attempt, jitter) ==
  ((cfg.baseDelay * Pow2(attempt)) % (cfg.maxDelay + 1)) + jitter

delay(cfg, attempt, jitter) ==
  Min(cfg.maxDelay, cfg.baseDelay * Pow2(attempt)) + jitter

(***************************************************************************)
(* What the client receives: res.set(headers), res.status(s).json(body).   *)
(***************************************************************************)
NoResponse ==
  [status |-> 0, success |-> FALSE, code |-> "", message |-> "", headers |-> NoHeaders,
   body |-> {}, errorKeys |-> {}]

\* the keys JSON.stringify writes for the error object {code, message}: a key whose
\* value is undefined is left out
ErrorKeys(code, message) ==
  {k \in {"code", "message"} : (IF k = "code" THEN code ELSE message) # undefined}

\* res.status(st).json({success: false, timestamp: Date.now(), data, error: {code,
\* message}}); body is the set of envelope keys written among success, timestamp, error
ErrEnvelope(st, code, message, headers) ==
  [status |-> st, success |-> FALSE, code |-> code, message |-> message,
   headers |-> headers, body |-> {"success", "timestamp", "error"},
   errorKeys |-> ErrorKeys(code, message)]

\* mutant: the backend's headers are set unfiltered
handleSuccessResponse_RawHeaders(st, headers) ==
  [status |-> st, success |-> TRUE, code |-> "", message |-> "", headers |-> headers,
   body |-> {"success", "timestamp"}, errorKeys |-> {}]

handleSuccessResponse(st, headers) ==
  [status |-> st, success |-> TRUE, code |-> "", message |-> "",
   headers |-> filterResponseHeaders(headers),
   body |-> {"success", "timestamp"}, errorKeys |-> {}]

handleErrResponse(err) ==
  IF err.kind = "AxiosError"
    THEN IF err.hasResponse
           THEN ErrEnvelope(err.response.status,
                  IF err.response.data.error = "object"
                    THEN err.response.data.code ELSE "SERVICE_ERROR",
                  IF err.response.data.error \in {"object", "string"}
                    THEN err.response.data.message ELSE "Unknown error occured",
                  err.response.headers)
         ELSE IF err.request
           THEN ErrEnvelope(502, "GATEWAY_ERROR", "[object Object]", NoHeaders)
         ELSE ErrEnvelope(500, "GATEWAY_ERROR", err.message, NoHeaders)
  ELSE IF err.kind = "ApiGatewayError"
    THEN ErrEnvelope(err.status, err.code, err.message, NoHeaders)
  ELSE ErrEnvelope(500, "UNKNOWN_ERROR", err.message, NoHeaders)


(***************************************************************************)
(* Load balancers.  An instance list is a function on 0 .. n-1, as the     *)
(* code indexes it; serviceTypes is the Map of RoundRobinBalancer.         *)
(***************************************************************************)
Length(instances) == Cardinality(DOMAIN instances)

InstanceList(type, n) == [i \in 0..(n - 1) |-> [id |-> i, serviceType |-> type]]

\* Map.get(type) ?? 0
CursorOf(serviceTypes, type) ==
  IF type \in DOMAIN serviceTypes THEN serviceTypes[type] ELSE 0

\* Map.set(type, v)
MapSet(serviceTypes, type, v) ==
  [t \in DOMAIN serviceTypes \cup {type} |-> IF t = type THEN v ELSE serviceTypes[t]]

\* mutant: the cursor is not advanced
RoundRobinSelect_NoAdvance(serviceTypes, instances) ==
  IF Length(instances) = 0
    THEN [threw |-> TRUE, idx |-> 0, serviceTypes |-> serviceTypes]
  ELSE LET type == instances[0].serviceType
           got == CursorOf(serviceTypes, type)
           idx == IF got > Length(instances) - 1 THEN 0 ELSE got
       IN [threw |-> FALSE, idx |-> idx,
           serviceTypes |-> MapSet(serviceTypes, type, idx)]

\* mutant: the next cursor is stored without the modulo
RoundRobinSelect_NoMod(serviceTypes, instances) ==
  IF Length(instances) = 0
    THEN [threw |-> TRUE, idx |-> 0, serviceTypes |-> serviceTypes]
  ELSE LET type == instances[0].serviceType
           got == CursorOf(serviceTypes, type)
           idx == IF got > Length(instances) - 1 THEN 0 ELSE got
       IN [threw |-> FALSE, idx |-> idx,
           serviceTypes |-> MapSet(serviceTypes, type, idx + 1)]

\* mutant: the stored cursor is not clamped to the list
RoundRobinSelect_NoClamp(serviceTypes, instances) ==
  IF Length(instances) = 0
    THEN [threw |-> TRUE, idx |-> 0, serviceTypes |-> serviceTypes]
  ELSE LET type == instances[0].serviceType
           idx == CursorOf(serviceTypes, type)
       IN [threw |-> FALSE, idx |-> idx,
           serviceTypes |-> MapSet(serviceTypes, type, (idx + 1) % Length(instances))]

\* mutant: one cursor is shared by all service types
RoundRobinSelect_SharedCursor(serviceTypes, instances) ==
  IF Length(instances) = 0
    THEN [threw |-> TRUE, idx |-> 0, serviceTypes |-> serviceTypes]
  ELSE LET type == "*"
           got == CursorOf(serviceTypes, type)
           idx == IF got > Length(instances) - 1 THEN 0 ELSE got
       IN [threw |-> FALSE, idx |-> idx,
           serviceTypes |-> MapSet(serviceTypes, type, (idx + 1) % Length(instances))]

\* RoundRobinBalancer.selectInstance: the index picked and the Map afterwards;
\* an empty list makes instances[0].serviceType throw a TypeError.
RoundRobinSelect(serviceTypes, instances) ==
  IF Length(instances) = 0
    THEN [threw |-> TRUE, idx |-> 0, serviceTypes |-> serviceTypes]
  ELSE LET type == instances[0].serviceType
           got == CursorOf(serviceTypes, type)
           idx == IF got > Length(instances) - 1 THEN 0 ELSE got
       IN [threw |-> FALSE, idx |-> idx,
           serviceTypes |-> MapSet(serviceTypes, type, (idx + 1) % Length(instances))]

\* RandomBalancer.selectInstance: the indexes Math.floor(Math.random() * n) can be;
\* for an empty list the index is 0 and instances[0] is undefined.
RandomSelect(instances) ==
  IF Length(instances) = 0 THEN {0} ELSE 0..(Length(instances) - 1)

(***************************************************************************)
(* Configuration and inputs.                                               *)
(***************************************************************************)
\* time is counted in ticks of 5000 ms
requestTimeout == 1
totalRequestTimeout == 2
\* the probe is retried while attempts < 3
HealthCheckRetries == 3
DefaultMaxRetries == 3
\* milliseconds
DefaultBaseDelay == 1000
DefaultMaxDelay == 5000
\* jitter = Math.random() * 10
JitterCeiling == 10
DefaultRetryableStatus == {500, 502, 503, 504}

Reqs == 1..MaxReqs

SERVICES == {"products", "orders", "cart", "users"}

\* the services the modelled clients ask for
RequestedServices == {"products"}

\* header objects of inbound requests
InboundHeaderChoices ==
  { NoHeaders,
    (<<"A","u","t","h","o","r","i","z","a","t","i","o","n">> :> "Bearer t")
      @@ (<<"H","O","S","T">> :> "gw") @@ (<<"a","c","c","e","p","t">> :> "json"),
    (<<"K","e","e","p","-","A","l","i","v","e">> :> "timeout=5")
      @@ (<<"x","-","t","r","a","c","e">> :> "7") }

\* header objects of backend responses
BackendHeaderChoices ==
  { NoHeaders,
    (<<"x","-","t","e","s","t","-","k","e","y">> :> "1234")
      @@ (h_keep_alive :> "timeout=5, max=200"),
    (<<"X","-","I","n","t","e","r","n","a","l","-","N","o","d","e">> :> "n1")
      @@ (<<"C","o","n","n","e","c","t","i","o","n">> :> "close") }

\* header objects of backend error responses
BackendErrorHeaderChoices ==
  { NoHeaders,
    (<<"x","-","r","e","q","u","e","s","t","-","i","d">> :> "42")
      @@ (<<"K","e","e","p","-","A","l","i","v","e">> :> "timeout=5")
      @@ (<<"x","-","i","n","t","e","r","n","a","l","-","h","o","p">> :> "3") }

\* resData of backend error responses
BackendErrorBodies ==
  { NoBody,
    [error |-> "object", code |-> "VALIDATION_ERROR", message |-> "Invalid input"],
    [error |-> "string", code |-> "", message |-> "backend failed"],
    [error |-> "object", code |-> undefined, message |-> "no code"] }

\* what axios.request can reject with
BackendErrors ==
  { AxiosResponseError(st, h, b) :
      st \in {400, 500}, h \in BackendErrorHeaderChoices, b \in BackendErrorBodies }
  \cup {AxiosTimeoutError, AxiosNoResponseError, AxiosSetupError}
  \cup {ApiGatewayError(502, "NETWORK", "Network error"), PlainError("unknown")}

\* what the registry lookup can reject with
RegistryErrors ==
  { AxiosResponseError(401, NoHeaders,
      [error |-> "object", code |-> "UNAUTHORIZED", message |-> "Unauthorized"]),
    AxiosNoResponseError }

BackendSuccessStatuses == {200, 201}

(***************************************************************************)
(* State.                                                                  *)
(***************************************************************************)
VARIABLES
  status,                  \* ApiGateway.status
  registryHeaders,         \* the credential, 0 when undefined
  timers,                  \* number of pending health-probe timers
  healthChecks,            \* opts.healthChecks
  healthCheckFailStrategy, \* opts.healthCheckFailStrategy
  loadBalancerStrategy,    \* opts.loadBalancerStrategy
  retryStrategy,           \* the RetryStrategy object
  serviceTypes,            \* RoundRobinBalancer.serviceTypes
  registrationKey,         \* whether SERVICE_REGISTRATION_KEY is set
  startPc, startAttempts,  \* the listen callback of index.ts
  serverClosed,            \* server.close() was called
  sigterms,                \* the status the listeners saw at each SIGTERM the gateway emitted
  sigtermListener,         \* the constructor's process.once("SIGTERM") listener is registered
  signals,                 \* the termination signals the process received from outside
  registryCreds,           \* how many distinct credentials the registry issues
  registryHealed,          \* from now on the registry answers every probe with UP
  hcPc, hcAttempts,        \* checkRegistryHealth and its local attempts
  rrAttempts,              \* local attempts of attemptReregister
  pc,                      \* where each request handler is suspended
  req,                     \* the inbound request: headers, serviceName
  attempt,                 \* local attempt of getServiceResponse
  elapsed,                 \* Date.now() - startTime, in ticks
  sent,                    \* header objects of the outbound requests issued
  outbound,                \* outbound backend requests issued for the request
  lookups,                 \* registry lookups issued for the request
  retried,                 \* failed attempts that were retried
  admit,                   \* the status read by the admission gate
  outcome,                 \* how the last outbound request settled
  filteredHeaders,         \* local filteredHeaders of getServiceResponse
  response,                \* what the client received
  srInput, srResult,       \* argument and result of a direct shouldRetry call
  lbCalls,                 \* the direct selectInstance calls made so far
  dlPrev, dlLast           \* the last two direct delay calls

gatewayVars ==
  <<status, registryHeaders, timers, healthChecks, healthCheckFailStrategy,
    loadBalancerStrategy, retryStrategy, registrationKey, startPc, startAttempts,
    serverClosed, sigterms, hcPc, hcAttempts, rrAttempts>>

requestVars ==
  <<pc, req, attempt, elapsed, filteredHeaders, sent, outbound, lookups, retried,
    admit, outcome, response>>

\* the process and the registry around the gateway
processVars == <<sigtermListener, signals, registryCreds, registryHealed>>

\* state of the direct calls of the pure functions
pureVars == <<srInput, srResult, lbCalls, dlPrev, dlLast>>

vars == <<gatewayVars, processVars, serviceTypes, requestVars, pureVars>>

NoRequest == [headers |-> NoHeaders, serviceName |-> "", remaining |-> <<>>]

\* no outbound request has settled
NoOutcome ==
  [kind |-> "none", code |-> "", status |-> 0, message |-> "", request |-> FALSE,
   hasResponse |-> FALSE, response |-> NoHttpResponse]

\* axios.request resolved with an HTTP response
Resolved(st, hdrs) ==
  [kind |-> "resolved", code |-> "", status |-> 0, message |-> "", request |-> TRUE,
   hasResponse |-> TRUE, response |-> [status |-> st, headers |-> hdrs, data |-> NoBody]]
NoCall == [err |-> PlainError(""), attempt |-> 0]

\* delay was not called
NoDelay == [attempt |-> -1, jitter |-> 0, duration |-> 0]


\* distinct credentials the registry issues before it repeats the last one
MaxCreds == 2

RetryConfigs ==
  {[maxRetries |-> m, retryableStatus |-> DefaultRetryableStatus,
    baseDelay |-> DefaultBaseDelay, maxDelay |-> DefaultMaxDelay] :
      m \in {0, DefaultMaxRetries}}

\* no pure function was called directly
PureInit ==
  /\ srInput = NoCall
  /\ srResult = FALSE
  /\ lbCalls = <<>>
  /\ dlPrev = NoDelay
  /\ dlLast = NoDelay

\* new ApiGateway(opts), before the server listens
GatewayInit ==
  /\ status = "GATEWAY_STARTING"
  /\ registryHeaders = 0
  /\ timers = 0
  /\ healthChecks \in BOOLEAN
  /\ healthCheckFailStrategy \in {"try-again", "shutdown"}
  /\ loadBalancerStrategy \in {"round-robin", "random"}
  /\ serviceTypes = [t \in {} |-> 0]
  /\ registrationKey \in BOOLEAN
  /\ startPc = "init"
  /\ startAttempts = 0
  /\ serverClosed = FALSE
  /\ sigterms = {}
  /\ sigtermListener = TRUE
  /\ signals = {}
  /\ hcPc = "idle"
  /\ hcAttempts = 0
  /\ rrAttempts = 0

RequestInit ==
  /\ pc = [r \in Reqs |-> "idle"]
  /\ req = [r \in Reqs |-> NoRequest]
  /\ attempt = [r \in Reqs |-> 0]
  /\ elapsed = [r \in Reqs |-> 0]
  /\ filteredHeaders = [r \in Reqs |-> NoHeaders]
  /\ sent = [r \in Reqs |-> {}]
  /\ outbound = [r \in Reqs |-> 0]
  /\ lookups = [r \in Reqs |-> 0]
  /\ retried = [r \in Reqs |-> 0]
  /\ admit = [r \in Reqs |-> ""]
  /\ outcome = [r \in Reqs |-> NoOutcome]
  /\ response = [r \in Reqs |-> NoResponse]

Init ==
  /\ GatewayInit
  /\ retryStrategy \in RetryConfigs
  /\ registryCreds = 1
  /\ registryHealed = FALSE
  /\ RequestInit
  /\ PureInit

(***************************************************************************)
(* The proxy pipeline: handleRequest and getServiceResponse.               *)
(***************************************************************************)
\* the handler returns after res.status(..).json(..); its locals are gone
Finish(r, resp) ==
  /\ pc' = [pc EXCEPT ![r] = "done"]
  /\ response' = [response EXCEPT ![r] = resp]
  /\ attempt' = [attempt EXCEPT ![r] = 0]
  /\ elapsed' = [elapsed EXCEPT ![r] = 0]
  /\ req' = [req EXCEPT ![r] = NoRequest]
  /\ filteredHeaders' = [filteredHeaders EXCEPT ![r] = NoHeaders]
  /\ sent' = [sent EXCEPT ![r] = {}]

\* handleRequest(req, res, serviceName, remaining) up to its first await
handleRequest(r, serviceName, remaining, headers) ==
  /\ pc[r] = "idle"
  /\ admit' = [admit EXCEPT ![r] = status]
  /\ IF status # "GATEWAY_ACTIVE"
       THEN /\ Finish(r, handleErrResponse(fromStatus(status)))
            /\ UNCHANGED lookups
       ELSE /\ pc' = [pc EXCEPT ![r] = "lookup"]
            /\ req' = [req EXCEPT ![r] = [headers |-> headers, serviceName |-> serviceName,
                                          remaining |-> remaining]]
            /\ lookups' = [lookups EXCEPT ![r] = lookups[r] + 1]
            /\ UNCHANGED <<response, attempt, elapsed, filteredHeaders, sent>>
  /\ UNCHANGED <<gatewayVars, serviceTypes, outbound, retried, outcome, processVars, pureVars>>

\* a request for one of the modelled services reaches handleRequest
HandleRequest(r) ==
  \E h \in InboundHeaderChoices, svc \in RequestedServices :
    handleRequest(r, svc, <<"all">>, h)

\* getServiceResponse up to its first await: the first outbound request
StartForward(r) ==
  /\ pc' = [pc EXCEPT ![r] = "forward"]
  /\ attempt' = [attempt EXCEPT ![r] = 0]
  /\ elapsed' = [elapsed EXCEPT ![r] = 0]
  /\ filteredHeaders' = [filteredHeaders EXCEPT ![r] = filterRequestHeaders(req[r].headers)]
  /\ sent' = [sent EXCEPT ![r] = {filterRequestHeaders(req[r].headers)}]
  /\ outbound' = [outbound EXCEPT ![r] = outbound[r] + 1]
  /\ UNCHANGED <<response, req>>

\* a TypeError thrown inside the try block of handleRequest
LookupTypeError(r) ==
  /\ Finish(r, handleErrResponse(PlainError("Cannot read properties of undefined")))
  /\ UNCHANGED outbound

\* getServices resolved with a list of n instances: select one and start forwarding
GetServicesResolves(r, n) ==
  /\ pc[r] = "lookup"
  /\ LET instances == InstanceList(req[r].serviceName, n)
         rr == RoundRobinSelect(serviceTypes, instances)
     IN IF loadBalancerStrategy = "round-robin"
          THEN IF rr.threw
                 THEN LookupTypeError(r) /\ UNCHANGED serviceTypes
                 ELSE StartForward(r) /\ serviceTypes' = rr.serviceTypes
          ELSE /\ UNCHANGED serviceTypes
               /\ \E idx \in RandomSelect(instances) :
                    IF idx \in DOMAIN instances THEN StartForward(r) ELSE LookupTypeError(r)
  /\ UNCHANGED <<gatewayVars, lookups, retried, admit, outcome, processVars, pureVars>>

GetServicesReturn(r) == \E n \in 0..MaxInstances : GetServicesResolves(r, n)

\* getServices rejected: caught by handleRequest
GetServicesFail(r) ==
  /\ pc[r] = "lookup"
  /\ \E err \in RegistryErrors : Finish(r, handleErrResponse(err))
  /\ UNCHANGED <<gatewayVars, serviceTypes, outbound, lookups, retried, admit, outcome,
                 processVars, pureVars>>

\* mutant: the gateway status is read again when the backend answers
RequestReturn_Gated(r) ==
  /\ pc[r] = "forward"
  /\ \E st \in BackendSuccessStatuses, h \in BackendHeaderChoices :
       /\ outcome' = [outcome EXCEPT ![r] = Resolved(st, h)]
       /\ IF status # "GATEWAY_ACTIVE"
            THEN Finish(r, handleErrResponse(fromStatus(status)))
            ELSE Finish(r, handleSuccessResponse(st, h))
  /\ UNCHANGED <<gatewayVars, serviceTypes, outbound, lookups, retried, admit,
                 processVars, pureVars>>

\* axios.request resolved
RequestReturn(r) ==
  /\ pc[r] = "forward"
  /\ \E st \in BackendSuccessStatuses, h \in BackendHeaderChoices :
       /\ outcome' = [outcome EXCEPT ![r] = Resolved(st, h)]
       /\ Finish(r, handleSuccessResponse(st, h))
  /\ UNCHANGED <<gatewayVars, serviceTypes, outbound, lookups, retried, admit,
                 processVars, pureVars>>

\* axios.request rejected with err after dt ticks: the catch block of
\* getServiceResponse
RequestRejects(r, err, dt) ==
  /\ pc[r] = "forward"
  /\ LET now == Min(elapsed[r] + dt, totalRequestTimeout)
       IN /\ outcome' = [outcome EXCEPT ![r] = err]
          /\ IF ~shouldRetry(retryStrategy, err, attempt[r])
               THEN /\ Finish(r, handleErrResponse(err))
                    /\ UNCHANGED retried
             ELSE IF now >= totalRequestTimeout
               \* the ApiGatewayError(504) leaves getServiceResponse; handleRequest
               \* returned the promise without awaiting it, so its catch is not run
               THEN /\ pc' = [pc EXCEPT ![r] = "unhandled"]
                    /\ attempt' = [attempt EXCEPT ![r] = 0]
                    /\ elapsed' = [elapsed EXCEPT ![r] = 0]
                    /\ req' = [req EXCEPT ![r] = NoRequest]
                    /\ filteredHeaders' = [filteredHeaders EXCEPT ![r] = NoHeaders]
                    /\ sent' = [sent EXCEPT ![r] = {}]
                    /\ UNCHANGED <<response, retried>>
             ELSE /\ pc' = [pc EXCEPT ![r] = "delay"]
                  /\ attempt' = [attempt EXCEPT ![r] = attempt[r] + 1]
                  /\ retried' = [retried EXCEPT ![r] = retried[r] + 1]
                  /\ elapsed' = [elapsed EXCEPT ![r] = now]
                  /\ UNCHANGED <<response, req, filteredHeaders, sent>>
  /\ UNCHANGED <<gatewayVars, serviceTypes, outbound, lookups, admit, processVars, pureVars>>

RequestFail(r) ==
  \E err \in BackendErrors, dt \in 0..requestTimeout : RequestRejects(r, err, dt)

\* retryStrategy.delay resolved after dt ticks: the next outbound request
DelayReturn(r) ==
  /\ pc[r] = "delay"
  /\ \E dt \in 0..requestTimeout :
       elapsed' = [elapsed EXCEPT ![r] = Min(elapsed[r] + dt, totalRequestTimeout)]
  /\ pc' = [pc EXCEPT ![r] = "forward"]
  /\ sent' = [sent EXCEPT ![r] = sent[r] \cup {filteredHeaders[r]}]
  /\ outbound' = [outbound EXCEPT ![r] = outbound[r] + 1]
  /\ UNCHANGED <<gatewayVars, serviceTypes, req, attempt, filteredHeaders, lookups,
                 retried, admit, outcome, response, processVars, pureVars>>

\* the exchange is over; the next inbound request starts from scratch
Close(r) ==
  /\ pc[r] \in {"done", "unhandled"}
  /\ pc' = [pc EXCEPT ![r] = "idle"]
  /\ req' = [req EXCEPT ![r] = NoRequest]
  /\ attempt' = [attempt EXCEPT ![r] = 0]
  /\ elapsed' = [elapsed EXCEPT ![r] = 0]
  /\ filteredHeaders' = [filteredHeaders EXCEPT ![r] = NoHeaders]
  /\ sent' = [sent EXCEPT ![r] = {}]
  /\ outbound' = [outbound EXCEPT ![r] = 0]
  /\ lookups' = [lookups EXCEPT ![r] = 0]
  /\ retried' = [retried EXCEPT ![r] = 0]
  /\ admit' = [admit EXCEPT ![r] = ""]
  /\ outcome' = [outcome EXCEPT ![r] = NoOutcome]
  /\ response' = [response EXCEPT ![r] = NoResponse]
  /\ UNCHANGED <<gatewayVars, serviceTypes, processVars, pureVars>>


(***************************************************************************)
(* Registration, startup and the health-check task.                        *)
(***************************************************************************)
\* the credential the registry issues to the next registration
NextCredential == Min(registryHeaders + 1, registryCreds)

\* mutant: the probe is scheduled whether or not health checks are enabled
RegisterSucceeds_AlwaysSchedules(cred) ==
  /\ status' = "GATEWAY_ACTIVE"
  /\ registryHeaders' = cred
  /\ timers' = timers + 1

\* mutant: the credential of the first registration is kept
RegisterSucceeds_KeepsCredential(cred) ==
  /\ status' = "GATEWAY_ACTIVE"
  /\ registryHeaders' = IF registryHeaders # 0 THEN registryHeaders ELSE cred
  /\ timers' = IF healthChecks THEN timers + 1 ELSE timers

\* mutant: the status is set but the returned credential is not stored
RegisterSucceeds_NoCredential(cred) ==
  /\ status' = "GATEWAY_ACTIVE"
  /\ registryHeaders' = registryHeaders
  /\ timers' = IF healthChecks THEN timers + 1 ELSE timers

\* register() after axios.post resolved
RegisterSucceeds(cred) ==
  /\ status' = "GATEWAY_ACTIVE"
  /\ registryHeaders' = cred
  /\ timers' = IF healthChecks THEN timers + 1 ELSE timers

\* mutant: the signal is emitted before the status is assigned
EmitSigterm_BeforeLatch ==
  /\ timers' = IF sigtermListener THEN 0 ELSE timers
  /\ sigtermListener' = FALSE
  /\ serverClosed' = TRUE
  /\ sigterms' = sigterms \cup {status}

\* mutant: the shutdown path also schedules the next probe
EmitSigterm_Reschedules ==
  /\ timers' = timers + 1
  /\ sigtermListener' = FALSE
  /\ serverClosed' = TRUE
  /\ sigterms' = sigterms \cup {status'}

\* process.emit("SIGTERM"), after the status was assigned: the constructor's once
\* listener clears the probe timer, the listener of index.ts closes the server; both
\* run synchronously and see the status just assigned
EmitSigterm ==
  /\ timers' = IF sigtermListener THEN 0 ELSE timers
  /\ sigtermListener' = FALSE
  /\ serverClosed' = TRUE
  /\ sigterms' = sigterms \cup {status'}

\* the process receives SIGTERM or SIGINT from outside: index.ts closes the server on
\* both; only SIGTERM has the listener that clears the probe timer, and only once
ProcessSignal(sig) ==
  /\ sig \notin signals
  /\ signals' = signals \cup {sig}
  /\ serverClosed' = TRUE
  /\ IF sig = "SIGTERM" /\ sigtermListener
       THEN timers' = 0 /\ sigtermListener' = FALSE
       ELSE UNCHANGED <<timers, sigtermListener>>
  /\ UNCHANGED <<status, registryHeaders, healthChecks, healthCheckFailStrategy,
                 loadBalancerStrategy, retryStrategy, registrationKey, startPc,
                 startAttempts, sigterms, hcPc, hcAttempts, rrAttempts, registryCreds,
                 registryHealed, serviceTypes, requestVars, pureVars>>

\* the listen callback: the first register call
Listen ==
  /\ startPc = "init"
  /\ startAttempts' = 1
  /\ IF registrationKey
       THEN startPc' = "registering" /\ UNCHANGED serverClosed
       ELSE startPc' = "closed" /\ serverClosed' = TRUE
  /\ UNCHANGED <<status, registryHeaders, timers, healthChecks, healthCheckFailStrategy,
                 loadBalancerStrategy, retryStrategy, registrationKey, sigterms, hcPc,
                 hcAttempts, rrAttempts, serviceTypes, requestVars, processVars, pureVars>>

\* the register call of the listen callback resolved true
StartupRegisterSucceeds(cred) ==
  /\ startPc = "registering"
  /\ RegisterSucceeds(cred)
  /\ startPc' = "done"
  /\ UNCHANGED <<startAttempts, serverClosed>>
  /\ UNCHANGED <<healthChecks, healthCheckFailStrategy, loadBalancerStrategy,
                 retryStrategy, registrationKey, sigterms, hcPc, hcAttempts, rrAttempts,
                 serviceTypes, requestVars, processVars, pureVars>>

\* mutant: the attempts of the listen callback are not limited to 3
StartupRegisterFails_FourAttempts ==
  /\ startPc = "registering"
  /\ IF startAttempts >= 4
       THEN startPc' = "closed" /\ serverClosed' = TRUE /\ UNCHANGED startAttempts
       ELSE startAttempts' = startAttempts + 1 /\ UNCHANGED <<startPc, serverClosed>>
  /\ UNCHANGED <<status, registryHeaders, timers>>
  /\ UNCHANGED <<healthChecks, healthCheckFailStrategy, loadBalancerStrategy,
                 retryStrategy, registrationKey, sigterms, hcPc, hcAttempts, rrAttempts,
                 serviceTypes, requestVars, processVars, pureVars>>

\* the register call of the listen callback resolved false
StartupRegisterFails ==
  /\ startPc = "registering"
  /\ IF startAttempts >= 3
       THEN startPc' = "closed" /\ serverClosed' = TRUE /\ UNCHANGED startAttempts
       ELSE startAttempts' = startAttempts + 1 /\ UNCHANGED <<startPc, serverClosed>>
  /\ UNCHANGED <<status, registryHeaders, timers>>
  /\ UNCHANGED <<healthChecks, healthCheckFailStrategy, loadBalancerStrategy,
                 retryStrategy, registrationKey, sigterms, hcPc, hcAttempts, rrAttempts,
                 serviceTypes, requestVars, processVars, pureVars>>

\* the register call of the listen callback settled
StartupRegisterReturn ==
  \/ StartupRegisterSucceeds(NextCredential)
  \/ StartupRegisterFails

\* mutant: the timer repeats, as setInterval would
HealthTimerFires_Interval ==
  /\ timers > 0
  /\ hcPc = "idle"
  /\ timers' = timers
  /\ hcPc' = "probe"
  /\ hcAttempts' = 0
  /\ UNCHANGED <<status, registryHeaders, healthChecks, healthCheckFailStrategy,
                 loadBalancerStrategy, retryStrategy, registrationKey, startPc,
                 startAttempts, serverClosed, sigterms, rrAttempts,
                 serviceTypes, requestVars, processVars, pureVars>>

\* the probe timer fires: checkRegistryHealth up to its first await
HealthTimerFires ==
  /\ timers > 0
  /\ hcPc = "idle"
  /\ timers' = timers - 1
  /\ hcPc' = "probe"
  /\ hcAttempts' = 0
  /\ UNCHANGED <<status, registryHeaders, healthChecks, healthCheckFailStrategy,
                 loadBalancerStrategy, retryStrategy, registrationKey, startPc,
                 startAttempts, serverClosed, sigterms, rrAttempts,
                 serviceTypes, requestVars, processVars, pureVars>>

\* checkRegistryHealth called directly on a registered gateway whose health checks are
\* disabled, up to its first await
CheckRegistryHealthCall ==
  /\ ~healthChecks
  /\ startPc = "done"
  /\ hcPc = "idle"
  /\ hcPc' = "probe"
  /\ hcAttempts' = 0
  /\ UNCHANGED <<status, registryHeaders, timers, healthChecks, healthCheckFailStrategy,
                 loadBalancerStrategy, retryStrategy, registrationKey, startPc,
                 startAttempts, serverClosed, sigterms, rrAttempts,
                 serviceTypes, requestVars, processVars, pureVars>>

ProbeOutcomes == {"UP", "DOWN", "401", "ECONNABORTED", "axios", "other"}

\* mutant: the status field of the probe's answer is not looked at
StatusAfterProbe_IgnoresDown(answer) ==
  CASE answer \in {"UP", "DOWN"} -> "GATEWAY_ACTIVE"
    [] answer = "401" -> "ATTEMPTING_REREGISTRATION"
    [] OTHER -> "REGISTRY_HEALTH_CHECK_FAIL"

\* mutant: a 401 is handled like any other failure
StatusAfterProbe_No401(answer) ==
  CASE answer = "UP" -> "GATEWAY_ACTIVE"
    [] OTHER -> "REGISTRY_HEALTH_CHECK_FAIL"

\* mutant: an UP answer does not restore the status
StatusAfterProbe_NeverUp(answer) ==
  CASE answer = "401" -> "ATTEMPTING_REREGISTRATION"
    [] OTHER -> "REGISTRY_HEALTH_CHECK_FAIL"

\* mutant: a DOWN answer assigns no status the finally block handles
StatusAfterProbe_DownUnlatched(answer) ==
  CASE answer = "UP" -> "GATEWAY_ACTIVE"
    [] answer = "401" -> "ATTEMPTING_REREGISTRATION"
    [] answer = "DOWN" -> "GATEWAY_STARTING"
    [] OTHER -> "REGISTRY_HEALTH_CHECK_FAIL"

\* the status the try / catch blocks of checkRegistryHealth assign
StatusAfterProbe(answer) ==
  CASE answer = "UP" -> "GATEWAY_ACTIVE"
    [] answer = "401" -> "ATTEMPTING_REREGISTRATION"
    [] OTHER -> "REGISTRY_HEALTH_CHECK_FAIL"

\* mutant: the fail strategy is not looked at, the round is always tried again
ProbeAnswered_IgnoresStrategy(answer) ==
  /\ hcPc = "probe"
  /\ LET st == StatusAfterProbe(answer)
     IN IF st = "GATEWAY_ACTIVE"
          THEN /\ status' = st
               /\ timers' = IF healthChecks THEN timers + 1 ELSE timers
               /\ hcPc' = "idle"
               /\ hcAttempts' = 0
               /\ UNCHANGED <<rrAttempts, serverClosed, sigterms, sigtermListener>>
        ELSE IF st = "REGISTRY_HEALTH_CHECK_FAIL" /\ hcAttempts < HealthCheckRetries
          THEN /\ status' = st
               /\ hcPc' = "delay"
               /\ UNCHANGED <<timers, hcAttempts, rrAttempts, serverClosed, sigterms,
                              sigtermListener>>
        ELSE IF st = "ATTEMPTING_REREGISTRATION"
          THEN /\ status' = st
               /\ hcPc' = "reregister"
               /\ rrAttempts' = 0
               /\ hcAttempts' = 0
               /\ UNCHANGED <<timers, serverClosed, sigterms, sigtermListener>>
        ELSE IF hcAttempts >= HealthCheckRetries
          THEN IF FALSE
                 THEN /\ status' = "SHUTTING_DOWN"
                      /\ EmitSigterm
                      /\ hcPc' = "idle"
                      /\ hcAttempts' = 0
                      /\ UNCHANGED rrAttempts
                 ELSE /\ status' = "REGISTRY_HEALTH_CHECK_FAIL"
                      /\ timers' = IF healthChecks THEN timers + 1 ELSE timers
                      /\ hcPc' = "idle"
                      /\ hcAttempts' = 0
                      /\ UNCHANGED <<rrAttempts, serverClosed, sigterms, sigtermListener>>
        \* the sanity branch: Error("unreachable") leaves the task
        ELSE /\ status' = st
             /\ hcPc' = "unreachable"
             /\ UNCHANGED <<timers, hcAttempts, rrAttempts, serverClosed, sigterms,
                            sigtermListener>>
  /\ UNCHANGED <<registryHeaders, healthChecks, healthCheckFailStrategy,
                 loadBalancerStrategy, retryStrategy, registrationKey, startPc,
                 startAttempts, signals, registryCreds, registryHealed, serviceTypes, requestVars,
                 pureVars>>

\* the probe settled with answer: try, catch and finally of checkRegistryHealth
ProbeAnswered(answer) ==
  /\ hcPc = "probe"
  /\ LET st == StatusAfterProbe(answer)
     IN IF st = "GATEWAY_ACTIVE"
          THEN /\ status' = st
               /\ timers' = IF healthChecks THEN timers + 1 ELSE timers
               /\ hcPc' = "idle"
               /\ hcAttempts' = 0
               /\ UNCHANGED <<rrAttempts, serverClosed, sigterms, sigtermListener>>
        ELSE IF st = "REGISTRY_HEALTH_CHECK_FAIL" /\ hcAttempts < HealthCheckRetries
          THEN /\ status' = st
               /\ hcPc' = "delay"
               /\ UNCHANGED <<timers, hcAttempts, rrAttempts, serverClosed, sigterms,
                              sigtermListener>>
        ELSE IF st = "ATTEMPTING_REREGISTRATION"
          THEN /\ status' = st
               /\ hcPc' = "reregister"
               /\ rrAttempts' = 0
               /\ hcAttempts' = 0
               /\ UNCHANGED <<timers, serverClosed, sigterms, sigtermListener>>
        ELSE IF hcAttempts >= HealthCheckRetries
          THEN IF healthCheckFailStrategy = "shutdown"
                 THEN /\ status' = "SHUTTING_DOWN"
                      /\ EmitSigterm
                      /\ hcPc' = "idle"
                      /\ hcAttempts' = 0
                      /\ UNCHANGED rrAttempts
                 ELSE /\ status' = "REGISTRY_HEALTH_CHECK_FAIL"
                      /\ timers' = IF healthChecks THEN timers + 1 ELSE timers
                      /\ hcPc' = "idle"
                      /\ hcAttempts' = 0
                      /\ UNCHANGED <<rrAttempts, serverClosed, sigterms, sigtermListener>>
        \* the sanity branch: Error("unreachable") leaves the task
        ELSE /\ status' = st
             /\ hcPc' = "unreachable"
             /\ UNCHANGED <<timers, hcAttempts, rrAttempts, serverClosed, sigterms,
                            sigtermListener>>
  /\ UNCHANGED <<registryHeaders, healthChecks, healthCheckFailStrategy,
                 loadBalancerStrategy, retryStrategy, registrationKey, startPc,
                 startAttempts, signals, registryCreds, registryHealed, serviceTypes, requestVars,
                 pureVars>>

\* what the registry can answer to the probe now
ProbeAnswersNow == IF registryHealed THEN {"UP"} ELSE ProbeOutcomes

ProbeReturn == \E answer \in ProbeAnswersNow : ProbeAnswered(answer)

\* mutant: attempts is not incremented after the delay
ProbeDelayReturn_NoCount ==
  /\ hcPc = "delay"
  /\ hcAttempts' = hcAttempts
  /\ hcPc' = "probe"
  /\ UNCHANGED <<status, registryHeaders, timers, healthChecks, healthCheckFailStrategy,
                 loadBalancerStrategy, retryStrategy, registrationKey, startPc,
                 startAttempts, serverClosed, sigterms, rrAttempts,
                 serviceTypes, requestVars, processVars, pureVars>>

\* the delay before a probe retry resolved: attempts++ and the next probe
ProbeDelayReturn ==
  /\ hcPc = "delay"
  /\ hcAttempts' = hcAttempts + 1
  /\ hcPc' = "probe"
  /\ UNCHANGED <<status, registryHeaders, timers, healthChecks, healthCheckFailStrategy,
                 loadBalancerStrategy, retryStrategy, registrationKey, startPc,
                 startAttempts, serverClosed, sigterms, rrAttempts,
                 serviceTypes, requestVars, processVars, pureVars>>

\* the register call of attemptReregister resolved true
ReregisterSucceeds(cred) ==
  /\ hcPc = "reregister"
  /\ RegisterSucceeds(cred)
  /\ hcPc' = "idle"
  /\ rrAttempts' = 0
  /\ UNCHANGED <<serverClosed, sigterms, sigtermListener>>
  /\ UNCHANGED <<healthChecks, healthCheckFailStrategy, loadBalancerStrategy,
                 retryStrategy, registrationKey, startPc, startAttempts, hcAttempts,
                 signals, registryCreds, registryHealed, serviceTypes, requestVars, pureVars>>

\* mutant: a failed register drops the credential
ReregisterFails_DropsCredential ==
  /\ hcPc = "reregister"
  /\ IF rrAttempts >= 3
       THEN /\ status' = "SHUTTING_DOWN"
            /\ EmitSigterm
            /\ hcPc' = "idle"
            /\ rrAttempts' = 0
            /\ UNCHANGED registryHeaders
       ELSE /\ rrAttempts' = rrAttempts + 1
            /\ hcPc' = "rrdelay"
            /\ registryHeaders' = 0
            /\ UNCHANGED <<status, timers, serverClosed, sigterms, sigtermListener>>
  /\ UNCHANGED <<healthChecks, healthCheckFailStrategy, loadBalancerStrategy,
                 retryStrategy, registrationKey, startPc, startAttempts, hcAttempts,
                 signals, registryCreds, registryHealed, serviceTypes, requestVars, pureVars>>

\* the register call of attemptReregister resolved false
ReregisterFails ==
  /\ hcPc = "reregister"
  /\ IF rrAttempts >= 3
       THEN /\ status' = "SHUTTING_DOWN"
            /\ EmitSigterm
            /\ hcPc' = "idle"
            /\ rrAttempts' = 0
            /\ UNCHANGED registryHeaders
       ELSE /\ rrAttempts' = rrAttempts + 1
            /\ hcPc' = "rrdelay"
            /\ UNCHANGED <<status, registryHeaders, timers, serverClosed, sigterms,
                           sigtermListener>>
  /\ UNCHANGED <<healthChecks, healthCheckFailStrategy, loadBalancerStrategy,
                 retryStrategy, registrationKey, startPc, startAttempts, hcAttempts,
                 signals, registryCreds, registryHealed, serviceTypes, requestVars, pureVars>>

\* the register call of attemptReregister settled
ReregisterReturn ==
  \/ ReregisterSucceeds(NextCredential)
  \/ ReregisterFails

\* the delay between re-register attempts resolved: the next register call
ReregisterDelayReturn ==
  /\ hcPc = "rrdelay"
  /\ hcPc' = "reregister"
  /\ UNCHANGED <<status, registryHeaders, timers, healthChecks, healthCheckFailStrategy,
                 loadBalancerStrategy, retryStrategy, registrationKey, startPc,
                 startAttempts, serverClosed, sigterms, hcAttempts, rrAttempts,
                 serviceTypes, requestVars, processVars, pureVars>>

Next ==
  \/ Listen
  \/ StartupRegisterReturn
  \/ HealthTimerFires
  \/ ProbeReturn
  \/ ProbeDelayReturn
  \/ ReregisterReturn
  \/ ReregisterDelayReturn
  \/ \E r \in Reqs : HandleRequest(r)
  \/ \E r \in Reqs : GetServicesReturn(r)
  \/ \E r \in Reqs : GetServicesFail(r)
  \/ \E r \in Reqs : RequestReturn(r)
  \/ \E r \in Reqs : RequestFail(r)
  \/ \E r \in Reqs : DelayReturn(r)
  \/ \E r \in Reqs : Close(r)

Spec == Init /\ [][Next]_vars

(***************************************************************************)
(* The gateway as index.ts runs it, with the termination signals the       *)
(* process can receive; and the same with checkRegistryHealth called       *)
(* directly when health checks are disabled.                               *)
(***************************************************************************)
Signals == {"SIGTERM", "SIGINT"}

InitLife ==
  /\ GatewayInit
  /\ loadBalancerStrategy = "random"
  /\ retryStrategy \in {c \in RetryConfigs : c.maxRetries = 0}
  /\ registryCreds = MaxCreds
  /\ registryHealed = FALSE
  /\ RequestInit
  /\ PureInit

NextLife ==
  \/ Listen
  \/ StartupRegisterReturn
  \/ HealthTimerFires
  \/ ProbeReturn
  \/ ProbeDelayReturn
  \/ ReregisterReturn
  \/ ReregisterDelayReturn
  \/ \E sig \in Signals : ProcessSignal(sig)
  \/ \E r \in Reqs : HandleRequest(r)
  \/ \E r \in Reqs : GetServicesReturn(r)
  \/ \E r \in Reqs : GetServicesFail(r)
  \/ \E r \in Reqs : RequestReturn(r)
  \/ \E r \in Reqs : RequestFail(r)
  \/ \E r \in Reqs : Close(r)

SpecLife == InitLife /\ [][NextLife]_vars

NextDirect ==
  \/ NextLife
  \/ CheckRegistryHealthCall

SpecDirect == InitLife /\ [][NextDirect]_vars

(***************************************************************************)
(* The gateway process with a registry that can recover for good, and the  *)
(* event loop running every due timer and settled promise of the health    *)
(* task.                                                                   *)
(***************************************************************************)
\* from now on the registry answers every probe with UP
RegistryHeals ==
  /\ ~registryHealed
  /\ registryHealed' = TRUE
  /\ UNCHANGED <<gatewayVars, sigtermListener, signals, registryCreds, serviceTypes,
                 requestVars, pureVars>>

NextFair ==
  \/ NextLife
  \/ RegistryHeals

SpecFair ==
  /\ InitLife
  /\ [][NextFair]_vars
  /\ WF_vars(HealthTimerFires)
  /\ WF_vars(ProbeReturn)
  /\ WF_vars(ProbeDelayReturn)
  /\ WF_vars(ReregisterReturn)
  /\ WF_vars(ReregisterDelayReturn)

(***************************************************************************)
(* The router of createApi.  A path is the sequence of its segments after  *)
(* the leading slash: "/products/" is <<"products", "">>, "/products" is    *)
(* <<"products">>, "/" is <<>>.                                             *)
(***************************************************************************)
Methods == {"GET", "POST", "PATCH", "PUT", "DELETE"}

RoutePaths ==
  {<<s, rest>> : s \in SERVICES, rest \in {"", "ids"}}
  \cup {<<>>, <<"nothing">>, <<"no-exist", "something-else">>, <<"products">>,
        <<"api", "products", "1">>}

\* mutant: the route is the bare service name, without the slash and wildcard
MatchesRoute_Prefix(path, service) == Len(path) >= 1 /\ path[1] = service

\* the route `/${service}/*`
MatchesRoute(path, service) == Len(path) >= 2 /\ path[1] = service

\* router.all("/*"): the 404 envelope, written by the route itself
CatchAll(r) ==
  /\ pc[r] = "idle"
  /\ Finish(r, [status |-> 404, success |-> FALSE, code |-> "SERVICE_NO_EXIST",
                message |-> undefined, headers |-> NoHeaders,
                body |-> {"success", "timestamp", "error"},
                errorKeys |-> ErrorKeys("SERVICE_NO_EXIST", undefined)])
  /\ UNCHANGED <<gatewayVars, serviceTypes, outbound, lookups, retried, admit, outcome,
                 processVars, pureVars>>

\* the router dispatches a request: the first matching route handles it
Route(r, method, path, headers) ==
  IF \E s \in SERVICES : MatchesRoute(path, s)
    THEN handleRequest(r, CHOOSE s \in SERVICES : MatchesRoute(path, s), Tail(path),
                       headers)
    ELSE CatchAll(r)

RouteRequest(r) ==
  \E method \in Methods, path \in RoutePaths, h \in InboundHeaderChoices :
    Route(r, method, path, h)

\* a gateway as the route tests build it, serving requests for any path
InitRoute ==
  /\ GatewayInit
  /\ healthChecks
  /\ healthCheckFailStrategy = "shutdown"
  /\ loadBalancerStrategy = "random"
  /\ registrationKey
  /\ retryStrategy \in {c \in RetryConfigs : c.maxRetries = 0}
  /\ registryCreds = 1
  /\ registryHealed = FALSE
  /\ RequestInit
  /\ PureInit

NextRoute ==
  \/ Listen
  \/ StartupRegisterReturn
  \/ HealthTimerFires
  \/ ProbeReturn
  \/ ProbeDelayReturn
  \/ ReregisterReturn
  \/ ReregisterDelayReturn
  \/ \E r \in Reqs : RouteRequest(r)
  \/ \E r \in Reqs : GetServicesReturn(r)
  \/ \E r \in Reqs : GetServicesFail(r)
  \/ \E r \in Reqs : RequestReturn(r)
  \/ \E r \in Reqs : RequestFail(r)
  \/ \E r \in Reqs : Close(r)

SpecRoute == InitRoute /\ [][NextRoute]_vars

(***************************************************************************)
(* RetryStrategy.shouldRetry called directly, on any error and attempt.    *)
(***************************************************************************)
RetryStatusSets == {DefaultRetryableStatus, {500}, {}}

ErrorUniverse ==
  BackendErrors
  \cup {ApiGatewayError(st, "err", "") : st \in {400, 500, 502, 503, 504}}
  \cup {[AxiosTimeoutError EXCEPT !.hasResponse = TRUE,
           !.response = [status |-> 408, headers |-> NoHeaders, data |-> NoBody]]}

InitRetry ==
  /\ GatewayInit
  /\ healthChecks
  /\ healthCheckFailStrategy = "try-again"
  /\ loadBalancerStrategy = "random"
  /\ registrationKey
  /\ retryStrategy \in [maxRetries : {0, 1, DefaultMaxRetries, 5},
                        retryableStatus : RetryStatusSets,
                        baseDelay : {DefaultBaseDelay}, maxDelay : {DefaultMaxDelay}]
  /\ registryCreds = 1
  /\ registryHealed = FALSE
  /\ RequestInit
  /\ PureInit

ShouldRetryCall ==
  /\ \E err \in ErrorUniverse, a \in 0..MaxAttemptArg :
       /\ srInput' = [err |-> err, attempt |-> a]
       /\ srResult' = shouldRetry(retryStrategy, err, a)
  /\ UNCHANGED <<gatewayVars, serviceTypes, requestVars, processVars, lbCalls, dlPrev, dlLast>>

NextRetry == ShouldRetryCall

SpecRetry == InitRetry /\ [][NextRetry]_vars


(***************************************************************************)
(* RoundRobinBalancer.selectInstance called directly on one balancer, with *)
(* lists of any type and length.                                           *)
(***************************************************************************)
LbTypes == {"products", "orders"}

InitLB ==
  /\ GatewayInit
  /\ healthChecks
  /\ healthCheckFailStrategy = "try-again"
  /\ loadBalancerStrategy = "round-robin"
  /\ registrationKey
  /\ retryStrategy \in {c \in RetryConfigs : c.maxRetries = DefaultMaxRetries}
  /\ registryCreds = 1
  /\ registryHealed = FALSE
  /\ RequestInit
  /\ PureInit

\* one call: its list, the index read, whether instances[idx] is an element of the
\* list, and whether the call threw
SelectInstanceCall ==
  /\ Len(lbCalls) < MaxCalls
  /\ \E type \in LbTypes, n \in 0..MaxLbInstances :
       LET instances == InstanceList(type, n)
           rr == RoundRobinSelect(serviceTypes, instances)
       IN /\ serviceTypes' = rr.serviceTypes
          /\ lbCalls' = Append(lbCalls,
               [type |-> type, n |-> n, idx |-> rr.idx, threw |-> rr.threw,
                defined |-> ~rr.threw /\ rr.idx \in DOMAIN instances])
  /\ UNCHANGED <<gatewayVars, requestVars, processVars, srInput, srResult, dlPrev, dlLast>>

NextLB == SelectInstanceCall

SpecLB == InitLB /\ [][NextLB]_vars

(***************************************************************************)
(* RetryStrategy.delay called directly, for any attempt and jitter.        *)
(***************************************************************************)
\* Math.random() * 10, in whole milliseconds
Jitters == 0..(JitterCeiling - 1)

InitDelay ==
  /\ GatewayInit
  /\ healthChecks
  /\ healthCheckFailStrategy = "try-again"
  /\ loadBalancerStrategy = "random"
  /\ registrationKey
  /\ retryStrategy \in [maxRetries : {DefaultMaxRetries},
                        retryableStatus : {DefaultRetryableStatus},
                        baseDelay : {1, 5, DefaultBaseDelay, 6000},
                        maxDelay : {5, DefaultMaxDelay}]
  /\ registryCreds = 1
  /\ registryHealed = FALSE
  /\ RequestInit
  /\ PureInit

DelayCall ==
  /\ \E a \in 0..MaxDelayAttempt, jitter \in Jitters :
       /\ dlPrev' = dlLast
       /\ dlLast' = [attempt |-> a, jitter |-> jitter,
                     duration |-> delay(retryStrategy, a, jitter)]
  /\ UNCHANGED <<gatewayVars, serviceTypes, requestVars, processVars, srInput, srResult, lbCalls>>

NextDelay == DelayCall

SpecDelay == InitDelay /\ [][NextDelay]_vars

(***************************************************************************)
(* Properties.                                                             *)
(***************************************************************************)
HopByHopHeaders ==
  {h_connection, h_keep_alive, h_proxy_authenticate, h_proxy_authorization,
   h_te, h_trailer, h_transfer_encoding, h_upgrade}

IsTransportTimeout(err) == err.kind = "AxiosError" /\ err.code = "ECONNABORTED"

IsRetryableHttpError(cfg, err) ==
  err.kind = "AxiosError" /\ err.hasResponse /\ err.response.status \in cfg.retryableStatus

IsRetryableGatewayError(cfg, err) ==
  err.kind = "ApiGatewayError" /\ err.status \in cfg.retryableStatus

RetryableKind(err) ==
  \/ IsTransportTimeout(err)
  \/ IsRetryableHttpError(retryStrategy, err)
  \/ IsRetryableGatewayError(retryStrategy, err)

C1_GateStep(r) ==
  (pc[r] = "idle" /\ pc'[r] # "idle" /\ status # "GATEWAY_ACTIVE") =>
     /\ pc'[r] = "done"
     /\ response'[r].status = 503
     /\ response'[r].success = FALSE
     /\ response'[r].code = status
     /\ lookups'[r] = 0
     /\ outbound'[r] = 0
     /\ serviceTypes' = serviceTypes

\* C1: a request contacts the registry, the load balancer or a backend only if the
\* status was GATEWAY_ACTIVE when it was admitted; under every other status the
\* admission step answers 503 with error.code equal to the status, issues no registry
\* or backend call and leaves the load-balancer state unchanged.
C1_AdmissionGate ==
  /\ [](\A r \in Reqs : (lookups[r] > 0 \/ outbound[r] > 0) => admit[r] = "GATEWAY_ACTIVE")
  /\ [][\A r \in Reqs : C1_GateStep(r)]_vars

C1_Witness ==
  \E r \in Reqs :
    /\ pc[r] = "done"
    /\ admit[r] = "ATTEMPTING_REREGISTRATION"
    /\ response[r].status = 503
    /\ response[r].code = "ATTEMPTING_REREGISTRATION"
    /\ lookups[r] = 0
    /\ outbound[r] = 0
    /\ DOMAIN serviceTypes # {}

\* C2: a request to a gateway whose status is GATEWAY_STARTING is answered with 503 and
\* the envelope {success:false, error:{code:"GATEWAY_STARTING",
\* message:"Gateway is starting. Please try again shortly"}}.
C2_StartingEnvelope ==
  \A r \in Reqs :
    (pc[r] = "done" /\ admit[r] = "GATEWAY_STARTING") =>
       /\ response[r].status = 503
       /\ response[r].success = FALSE
       /\ response[r].code = "GATEWAY_STARTING"
       /\ response[r].message = "Gateway is starting. Please try again shortly"

\* C3: a request admitted under GATEWAY_ACTIVE is never stopped by a later status
\* change: while it is suspended its next step stays possible whatever the status is,
\* it is never answered with a status rejection, and a backend response it received
\* is delivered with the backend's status.
C3_InFlightCompletes ==
  \A r \in Reqs :
    /\ pc[r] = "lookup" => ENABLED GetServicesReturn(r)
    /\ pc[r] = "forward" => ENABLED RequestReturn(r) /\ ENABLED RequestFail(r)
    /\ pc[r] = "delay" => ENABLED DelayReturn(r)
    /\ (pc[r] = "done" /\ admit[r] = "GATEWAY_ACTIVE") =>
          /\ response[r].code \notin GatewayStatuses
          /\ outcome[r].kind = "resolved" =>
               /\ response[r].success
               /\ response[r].status = outcome[r].response.status

C3_Witness ==
  \E r \in Reqs :
    /\ pc[r] = "done"
    /\ admit[r] = "GATEWAY_ACTIVE"
    /\ status = "SHUTTING_DOWN"
    /\ retried[r] >= 1
    /\ response[r].success
    /\ response[r].status = 200

\* C4: when an outbound attempt fails with a retryable error and the time elapsed since
\* the first attempt is >= totalTimeout, the client receives a 504 response with
\* error.code GATEWAY_TIMEOUT.
C4_TotalTimeoutAnswers504 ==
  [][\A r \in Reqs : \A err \in BackendErrors : \A dt \in 0..requestTimeout :
       ( /\ RequestRejects(r, err, dt)
         /\ RetryableKind(err)
         /\ attempt[r] < retryStrategy.maxRetries
         /\ elapsed[r] + dt >= totalRequestTimeout )
       => /\ pc'[r] = "done"
          /\ response'[r].status = 504
          /\ response'[r].code = "GATEWAY_TIMEOUT"]_vars

\* C5: when the backend fails k <= maxRetries times in a row with retryable errors and
\* then succeeds, before the total timeout, exactly k+1 outbound requests are issued
\* and the client receives the status of the successful backend response: a retryable
\* failure ends the request only after maxRetries retries.
C5_RetryThenSucceed ==
  \A r \in Reqs :
    /\ pc[r] = "forward" => outbound[r] = retried[r] + 1
    /\ (pc[r] = "done" /\ response[r].success) =>
          /\ outbound[r] = retried[r] + 1
          /\ retried[r] <= retryStrategy.maxRetries
          /\ response[r].status = outcome[r].response.status
    /\ (pc[r] = "done" /\ outbound[r] >= 1 /\ ~response[r].success
          /\ RetryableKind(outcome[r])) =>
          retried[r] = retryStrategy.maxRetries

C5_Witness ==
  \E r \in Reqs :
    /\ pc[r] = "done"
    /\ retryStrategy.maxRetries = 3
    /\ retried[r] = 2
    /\ outbound[r] = 3
    /\ response[r].success
    /\ response[r].status = 200

\* C6: a backend error that is not retryable is never retried, so no outbound request
\* follows it (exactly one when it answers the first attempt), and the client receives
\* the backend's status with a failure envelope carrying the error code and message of
\* the backend's envelope.
C6_NonRetryableNotRetried ==
  \A r \in Reqs :
    /\ pc[r] = "delay" => RetryableKind(outcome[r])
    /\ (pc[r] = "done" /\ outcome[r].kind = "AxiosError" /\ outcome[r].hasResponse
          /\ ~RetryableKind(outcome[r])) =>
          /\ outbound[r] = retried[r] + 1
          /\ response[r].success = FALSE
          /\ response[r].status = outcome[r].response.status
          /\ outcome[r].response.data.error = "object" =>
               /\ response[r].code = outcome[r].response.data.code
               /\ response[r].message = outcome[r].response.data.message

C6_Witness ==
  \E r \in Reqs :
    /\ pc[r] = "done"
    /\ outbound[r] = 1
    /\ outcome[r].kind = "AxiosError"
    /\ outcome[r].response.status = 400
    /\ response[r].status = 400
    /\ response[r].code = "VALIDATION_ERROR"
    /\ response[r].message = "Invalid input"

C8_EmptyListIs502 ==
  [][\A r \in Reqs :
       GetServicesResolves(r, 0) =>
         /\ pc'[r] = "done"
         /\ response'[r].success = FALSE
         /\ response'[r].status = 502
         /\ response'[r].code = "GATEWAY_ERROR"
         /\ outbound'[r] = 0]_vars

\* C9: every outbound backend request, first attempt and retries alike, carries none
\* of authorization, host, content-length nor any hop-by-hop header, whatever the
\* casing, and carries every other inbound header under its original key.
C9_OutboundHeaders ==
  \A r \in Reqs :
    pc[r] \in {"forward", "delay"} =>
      \A h \in sent[r] :
        /\ \A k \in DOMAIN h :
             ToLowerCase(k) \notin
               {h_authorization, h_host, h_content_length} \cup HopByHopHeaders
        /\ \A k \in DOMAIN req[r].headers :
             ToLowerCase(k) \notin
               {h_authorization, h_host, h_content_length} \cup HopByHopHeaders
             => (k \in DOMAIN h /\ h[k] = req[r].headers[k])

\* C10: on a successful proxied response the headers set on the client response are
\* exactly the backend's headers without the hop-by-hop headers and without every
\* header whose name starts, in any casing, with x-internal-.
C10_SuccessHeaders ==
  \A r \in Reqs :
    (pc[r] = "done" /\ response[r].success) =>
      LET bh == outcome[r].response.headers
          kept == {k \in DOMAIN bh :
                     /\ ToLowerCase(k) \notin HopByHopHeaders
                     /\ ~StartsWith(ToLowerCase(k), h_x_internal_)}
      IN /\ DOMAIN response[r].headers = kept
         /\ \A k \in kept : response[r].headers[k] = bh[k]

C10_Witness ==
  \E r \in Reqs :
    /\ pc[r] = "done"
    /\ response[r].success
    /\ h_keep_alive \in DOMAIN outcome[r].response.headers
    /\ h_keep_alive \notin DOMAIN response[r].headers
    /\ <<"x","-","t","e","s","t","-","k","e","y">> \in DOMAIN response[r].headers

\* C11: when the error being shaped carries a backend HTTP response, the headers set on
\* the client response are that response's headers after filterResponse: no hop-by-hop
\* header and no x-internal-* header of a backend error response reaches the client.
C11_ErrorHeadersFiltered ==
  \A r \in Reqs :
    (pc[r] = "done" /\ outcome[r].kind = "AxiosError" /\ outcome[r].hasResponse) =>
      /\ response[r].headers = filterResponseHeaders(outcome[r].response.headers)
      /\ \A k \in DOMAIN response[r].headers :
           /\ ToLowerCase(k) \notin HopByHopHeaders
           /\ ~StartsWith(ToLowerCase(k), h_x_internal_)

\* C12: every response body the gateway emits (proxied success, shaped error, status
\* rejection, unknown-service 404) contains success and timestamp; a success envelope
\* never contains error; a failure envelope always contains a defined error.code, also
\* when the backend's error object has no code.
C12_EnvelopeShape ==
  \A r \in Reqs :
    pc[r] = "done" =>
      /\ {"success", "timestamp"} \subseteq response[r].body
      /\ response[r].success => "error" \notin response[r].body
      /\ ~response[r].success =>
           /\ "error" \in response[r].body
           /\ "code" \in response[r].errorKeys
           /\ response[r].code # undefined

\* C13: shaping a backend HTTP error response, the client status equals the backend
\* status; error.code is the code of the backend's error object when it has one, and
\* SERVICE_ERROR when the backend sent no envelope, a string error, or an error object
\* without a code.
C13_BackendErrorShaping ==
  \A r \in Reqs :
    (pc[r] = "done" /\ outcome[r].kind = "AxiosError" /\ outcome[r].hasResponse) =>
      LET data == outcome[r].response.data
      IN /\ response[r].status = outcome[r].response.status
         /\ response[r].code =
              IF data.error = "object" /\ data.code # undefined
                THEN data.code ELSE "SERVICE_ERROR"

IsServicePath(path) == Len(path) >= 2 /\ path[1] \in SERVICES

\* C14: for every HTTP method a request for /{service}/<rest>, service one of products,
\* orders, cart, users, is dispatched to handleRequest with that service name and rest;
\* any other path is answered 404 with {success:false, error:{code:"SERVICE_NO_EXIST"}},
\* whatever the gateway status, without a registry or backend call.
C14_Routing ==
  [][\A r \in Reqs : \A method \in Methods : \A path \in RoutePaths :
       \A h \in InboundHeaderChoices :
         Route(r, method, path, h) =>
           IF IsServicePath(path)
             THEN /\ admit'[r] = status
                  /\ status = "GATEWAY_ACTIVE" =>
                       /\ pc'[r] = "lookup"
                       /\ req'[r].serviceName = path[1]
                       /\ req'[r].remaining = Tail(path)
                       /\ req'[r].headers = h
                       /\ lookups'[r] = 1
                  /\ status # "GATEWAY_ACTIVE" =>
                       /\ pc'[r] = "done"
                       /\ response'[r].status = 503
             ELSE /\ pc'[r] = "done"
                  /\ response'[r].status = 404
                  /\ response'[r].success = FALSE
                  /\ response'[r].code = "SERVICE_NO_EXIST"
                  /\ response'[r].body = {"success", "timestamp", "error"}
                  /\ response'[r].errorKeys = {"code"}
                  /\ admit'[r] = ""
                  /\ lookups'[r] = 0
                  /\ outbound'[r] = 0
                  /\ serviceTypes' = serviceTypes]_vars

C14_Witness ==
  \E r \in Reqs :
    /\ pc[r] = "done"
    /\ status = "REGISTRY_HEALTH_CHECK_FAIL"
    /\ response[r].status = 404
    /\ response[r].code = "SERVICE_NO_EXIST"
    /\ lookups[r] = 0
    /\ outbound[r] = 0

\* the calls 1 .. j were all made with the type and length of the first call
SameListUpTo(j) ==
  \A i \in 1..j : lbCalls[i].type = lbCalls[1].type /\ lbCalls[i].n = lbCalls[1].n

\* C15: on a fresh RoundRobinBalancer called repeatedly with the same serviceType and an
\* unchanged list of n >= 1 instances, the j-th call returns instances[(j-1) mod n].
C15_RoundRobinOrder ==
  \A j \in 1..Len(lbCalls) :
    (SameListUpTo(j) /\ lbCalls[1].n >= 1) =>
      /\ lbCalls[j].defined
      /\ lbCalls[j].idx = (j - 1) % lbCalls[1].n

C15_Witness ==
  /\ Len(lbCalls) = 4
  /\ SameListUpTo(4)
  /\ lbCalls[1].n = 3
  /\ lbCalls[1].idx = 0
  /\ lbCalls[3].idx = 2
  /\ lbCalls[4].idx = 0

\* C16: after any sequence of selectInstance calls with non-empty lists of changing
\* lengths, the cursor stored for a service type is in 0 .. n-1, n the length of the
\* list of the most recent call for that type, and every call returned an element of
\* the list it was given.
C16_CursorInRange ==
  (\A j \in 1..Len(lbCalls) : lbCalls[j].n >= 1) =>
    /\ \A j \in 1..Len(lbCalls) :
         /\ lbCalls[j].defined
         /\ lbCalls[j].idx \in 0..(lbCalls[j].n - 1)
    /\ \A t \in DOMAIN serviceTypes : \A j \in 1..Len(lbCalls) :
         ( /\ lbCalls[j].type = t
           /\ \A i \in (j + 1)..Len(lbCalls) : lbCalls[i].type # t )
         => serviceTypes[t] \in 0..(lbCalls[j].n - 1)

C16_Witness ==
  /\ Len(lbCalls) = 4
  /\ lbCalls[1].type = "products" /\ lbCalls[1].n = 2
  /\ lbCalls[2].type = "orders" /\ lbCalls[2].n = 3
  /\ lbCalls[3].type = "products" /\ lbCalls[3].n = 3 /\ lbCalls[3].idx = 1
  /\ lbCalls[4].type = "products" /\ lbCalls[4].n = 1 /\ lbCalls[4].idx = 0
  /\ serviceTypes["products"] = 0
  /\ serviceTypes["orders"] = 1

\* C17: when the cursor stored for a service type is >= the length of the list passed
\* to selectInstance, the call returns instances[0] and stores 1 mod n, without error.
C17_ShrinkWraps ==
  [][lbCalls' # lbCalls =>
       LET c == lbCalls'[Len(lbCalls')]
       IN (c.n >= 1 /\ CursorOf(serviceTypes, c.type) >= c.n) =>
            /\ ~c.threw
            /\ c.defined
            /\ c.idx = 0
            /\ serviceTypes'[c.type] = 1 % c.n]_vars

C17_Witness ==
  \E j \in 2..Len(lbCalls) :
    /\ lbCalls[j - 1].type = lbCalls[j].type
    /\ lbCalls[j - 1].n = 3
    /\ lbCalls[j - 1].idx = 1
    /\ lbCalls[j].n = 2
    /\ lbCalls[j].idx = 0
    /\ lbCalls[j].defined
    /\ j = Len(lbCalls)
    /\ serviceTypes[lbCalls[j].type] = 1

\* C18: a selectInstance call for a list of type A changes only the cursor of type A,
\* so the first selection for a type not selected before returns index 0 whatever was
\* selected for other types.
C18_IndependentCursors ==
  /\ [](\A j \in 1..Len(lbCalls) :
          ( /\ lbCalls[j].n >= 1
            /\ \A i \in 1..(j - 1) : lbCalls[i].type # lbCalls[j].type )
          => lbCalls[j].idx = 0)
  /\ [][lbCalls' # lbCalls =>
          LET c == lbCalls'[Len(lbCalls')]
          IN \A t \in (DOMAIN serviceTypes \cup DOMAIN serviceTypes') \ {c.type} :
               /\ t \in DOMAIN serviceTypes
               /\ t \in DOMAIN serviceTypes'
               /\ serviceTypes'[t] = serviceTypes[t]]_vars

C18_Witness ==
  /\ Len(lbCalls) = 3
  /\ lbCalls[1].type = "products" /\ lbCalls[1].n = 3 /\ lbCalls[1].idx = 0
  /\ lbCalls[2].type = "products" /\ lbCalls[2].n = 3 /\ lbCalls[2].idx = 1
  /\ lbCalls[3].type = "orders" /\ lbCalls[3].n = 2 /\ lbCalls[3].idx = 0
  /\ serviceTypes["products"] = 2
  /\ serviceTypes["orders"] = 1

\* C19: for every attempt a >= 0 and every jitter in [0, 10) the duration of delay(a) is
\* min(maxDelay, baseDelay * 2^a) + jitter, hence at most maxDelay + 10 ms, also when
\* baseDelay is larger than maxDelay.
C19_DelayBound ==
  dlLast # NoDelay =>
    LET exponential == retryStrategy.baseDelay * Pow2(dlLast.attempt)
    IN /\ exponential <= retryStrategy.maxDelay =>
            dlLast.duration = exponential + dlLast.jitter
       /\ exponential > retryStrategy.maxDelay =>
            dlLast.duration = retryStrategy.maxDelay + dlLast.jitter
       /\ dlLast.duration <= retryStrategy.maxDelay + JitterCeiling

C19_Witness ==
  /\ retryStrategy.baseDelay = 6000
  /\ retryStrategy.maxDelay = 5
  /\ dlLast.attempt = 4
  /\ dlLast.jitter = 9
  /\ dlLast.duration = 14

\* dlPrev and dlLast are delay(a-1) and delay(a)
ConsecutiveDelays == dlPrev # NoDelay /\ dlLast.attempt = dlPrev.attempt + 1

\* C20 as claimed: for all attempts a >= 1, delay(a) >= delay(a-1), for every choice of
\* the two jitter values.
C20_NonDecreasing ==
  ConsecutiveDelays => dlLast.duration >= dlPrev.duration

\* C20 as amended: for all attempts a >= 1 the delay without its jitter is
\* non-decreasing, so delay(a) > delay(a-1) - 10 ms for every choice of the two jitter
\* values; delay(a) > delay(a-1) for every choice when baseDelay * 2^(a-1) >= 10 and
\* baseDelay * 2^a <= maxDelay.
C20_BackoffAmended ==
  ConsecutiveDelays =>
    /\ dlLast.duration - dlLast.jitter >= dlPrev.duration - dlPrev.jitter
    /\ dlLast.duration > dlPrev.duration - JitterCeiling
    /\ ( /\ retryStrategy.baseDelay * Pow2(dlPrev.attempt) >= JitterCeiling
         /\ retryStrategy.baseDelay * Pow2(dlLast.attempt) <= retryStrategy.maxDelay )
       => dlLast.duration > dlPrev.duration

C20_Witness ==
  /\ retryStrategy.baseDelay = DefaultBaseDelay
  /\ retryStrategy.maxDelay = DefaultMaxDelay
  /\ dlPrev.attempt = 3 /\ dlPrev.jitter = 9 /\ dlPrev.duration = 5009
  /\ dlLast.attempt = 4 /\ dlLast.jitter = 0 /\ dlLast.duration = 5000

\* C21: a successful register sets the status to GATEWAY_ACTIVE, stores the issued
\* credential and schedules the first health probe if and only if health checks are
\* enabled; with health checks disabled neither register nor checkRegistryHealth ever
\* schedules a probe timer.
C21_RegisterSchedules ==
  /\ [](~healthChecks => timers = 0)
  /\ [][\A cred \in 1..MaxCreds :
          (StartupRegisterSucceeds(cred) \/ ReregisterSucceeds(cred)) =>
            /\ status' = "GATEWAY_ACTIVE"
            /\ registryHeaders' = cred
            /\ timers' = IF healthChecks THEN 1 ELSE 0]_vars

C21_Witness ==
  /\ ~healthChecks
  /\ startPc = "done"
  /\ registryHeaders # 0
  /\ status = "REGISTRY_HEALTH_CHECK_FAIL"
  /\ hcPc = "idle"
  /\ timers = 0

\* C22: after an exhausted health-check round (the probe and all its retries failed
\* without a 401) the fail strategy is applied: with shutdown the status becomes
\* SHUTTING_DOWN, SIGTERM is emitted and no probe is scheduled; with try-again the
\* status stays REGISTRY_HEALTH_CHECK_FAIL and exactly one new probe is scheduled when
\* health checks are enabled.
C22_FailStrategy ==
  [][\A answer \in ProbeOutcomes \ {"UP", "401"} :
       (ProbeAnswered(answer) /\ hcAttempts >= HealthCheckRetries) =>
         /\ hcPc' = "idle"
         /\ IF healthCheckFailStrategy = "shutdown"
              THEN /\ status' = "SHUTTING_DOWN"
                   /\ "SHUTTING_DOWN" \in sigterms'
                   /\ serverClosed'
                   /\ timers' = 0
              ELSE /\ status' = "REGISTRY_HEALTH_CHECK_FAIL"
                   /\ sigterms' = sigterms
                   /\ timers' = IF healthChecks THEN 1 ELSE 0]_vars

C22_Witness ==
  /\ healthCheckFailStrategy = "try-again"
  /\ healthChecks
  /\ status = "REGISTRY_HEALTH_CHECK_FAIL"
  /\ hcPc = "idle"
  /\ timers = 1
  /\ sigterms = {}

\* C23: in a health-check round where the registry answers DOWN twice and then UP,
\* exactly three probes are issued, the status is GATEWAY_ACTIVE after the third and
\* the next probe is scheduled; every request admitted between the first DOWN answer
\* and the UP answer is rejected with 503 and error.code REGISTRY_HEALTH_CHECK_FAIL.
C23_HealthRecovery ==
  /\ [](\A r \in Reqs :
          (pc[r] = "done" /\ admit[r] = "REGISTRY_HEALTH_CHECK_FAIL") =>
            /\ response[r].status = 503
            /\ response[r].success = FALSE
            /\ response[r].code = "REGISTRY_HEALTH_CHECK_FAIL")
  /\ []((hcPc = "delay" \/ (hcPc = "probe" /\ hcAttempts >= 1)) =>
          status = "REGISTRY_HEALTH_CHECK_FAIL")
  /\ [][(ProbeAnswered("DOWN") /\ hcAttempts < 2) =>
          /\ status' = "REGISTRY_HEALTH_CHECK_FAIL"
          /\ hcPc' = "delay"
          /\ timers' = timers]_vars
  /\ [][ProbeDelayReturn => (hcPc' = "probe" /\ hcAttempts' = hcAttempts + 1)]_vars
  /\ [][(ProbeAnswered("UP") /\ hcAttempts = 2) =>
          /\ status' = "GATEWAY_ACTIVE"
          /\ hcPc' = "idle"
          /\ timers' = 1]_vars

C23_Witness ==
  /\ status = "GATEWAY_ACTIVE"
  /\ hcPc = "idle"
  /\ timers = 1
  /\ \E r \in Reqs :
       /\ pc[r] = "done"
       /\ admit[r] = "REGISTRY_HEALTH_CHECK_FAIL"
       /\ response[r].status = 503
       /\ response[r].code = "REGISTRY_HEALTH_CHECK_FAIL"

\* C24: a health probe answered with HTTP 401, first probe or retry, sets the status
\* to ATTEMPTING_REREGISTRATION and starts the re-register subroutine at once, without
\* retrying the probe; a probe that is DOWN, times out or fails otherwise sets the
\* status to REGISTRY_HEALTH_CHECK_FAIL and never starts re-registration.
C24_UnauthorizedReregisters ==
  /\ [](hcPc \in {"reregister", "rrdelay"} => status = "ATTEMPTING_REREGISTRATION")
  /\ [][\A answer \in ProbeOutcomes :
          ProbeAnswered(answer) =>
            IF answer = "401"
              THEN /\ status' = "ATTEMPTING_REREGISTRATION"
                   /\ hcPc' = "reregister"
                   /\ rrAttempts' = 0
                   /\ timers' = timers
              ELSE /\ hcPc' \notin {"reregister", "rrdelay"}
                   /\ status' # "ATTEMPTING_REREGISTRATION"
                   /\ answer # "UP" =>
                        /\ StatusAfterProbe(answer) = "REGISTRY_HEALTH_CHECK_FAIL"
                        /\ \/ status' = "REGISTRY_HEALTH_CHECK_FAIL"
                           \/ /\ status' = "SHUTTING_DOWN"
                              /\ hcAttempts >= HealthCheckRetries
                              /\ healthCheckFailStrategy = "shutdown"]_vars

C24_Witness ==
  /\ hcPc = "reregister"
  /\ status = "ATTEMPTING_REREGISTRATION"
  /\ rrAttempts = 0
  /\ timers = 0
  /\ registryHeaders = 1

\* C25: when a re-register attempt succeeds the status returns to GATEWAY_ACTIVE, the
\* credential is replaced by the newly issued one and exactly one probe is scheduled
\* (when health checks are enabled).
C25_ReregisterSuccess ==
  [][\A cred \in 1..MaxCreds :
       ReregisterSucceeds(cred) =>
         /\ cred = NextCredential
         /\ status' = "GATEWAY_ACTIVE"
         /\ registryHeaders' = cred
         /\ hcPc' = "idle"
         /\ timers' = IF healthChecks THEN 1 ELSE 0]_vars

C25_Witness ==
  /\ registryHeaders = 2
  /\ status = "GATEWAY_ACTIVE"
  /\ hcPc = "idle"
  /\ timers = 1

\* the register calls the re-register subroutine has made so far
RegisterCallsMade ==
  IF hcPc = "reregister" THEN rrAttempts + 1
  ELSE IF hcPc = "rrdelay" THEN rrAttempts
  ELSE 0

\* C26: the re-register subroutine makes at most maxRetries (default 3) register
\* attempts: when the third successive attempt fails the status becomes SHUTTING_DOWN
\* and SIGTERM is emitted, and no fourth register attempt is made.
C26_ReregisterBounded ==
  /\ [](RegisterCallsMade <= DefaultMaxRetries)
  /\ [][(ReregisterFails /\ RegisterCallsMade = DefaultMaxRetries) =>
          /\ status' = "SHUTTING_DOWN"
          /\ "SHUTTING_DOWN" \in sigterms'
          /\ hcPc' = "idle"]_vars

\* C27: at every moment the number of pending probe timers plus the number of running
\* checkRegistryHealth / attemptReregister executions is at most 1.
C27_OneProbeTask ==
  timers + (IF hcPc # "idle" THEN 1 ELSE 0) <= 1

C27_Witness ==
  /\ registryHeaders = 2
  /\ healthCheckFailStrategy = "try-again"
  /\ status = "REGISTRY_HEALTH_CHECK_FAIL"
  /\ hcPc = "idle"
  /\ timers = 1

\* C28: SHUTTING_DOWN is terminal: once the status is SHUTTING_DOWN no step changes it,
\* no probe timer is pending and no probe or register call is issued.
C28_ShutdownTerminal ==
  /\ [](status = "SHUTTING_DOWN" =>
          /\ timers = 0
          /\ hcPc = "idle"
          /\ startPc = "done")
  /\ [][status = "SHUTTING_DOWN" =>
          /\ status' = "SHUTTING_DOWN"
          /\ timers' = 0
          /\ hcPc' = "idle"
          /\ startPc' = startPc
          /\ registryHeaders' = registryHeaders]_vars

C28_Witness ==
  /\ status = "SHUTTING_DOWN"
  /\ \E r \in Reqs :
       /\ pc[r] = "done"
       /\ admit[r] = "SHUTTING_DOWN"
       /\ response[r].status = 503

\* C29: whenever the gateway emits SIGTERM itself the status was set to SHUTTING_DOWN
\* before, so every listener of the signal sees the status SHUTTING_DOWN.
C29_LatchedBeforeSignal ==
  /\ [](\A seen \in sigterms : seen = "SHUTTING_DOWN")
  /\ [][sigterms' # sigterms => status' = "SHUTTING_DOWN"]_vars

C29_Witness ==
  /\ sigterms = {"SHUTTING_DOWN"}
  /\ status = "SHUTTING_DOWN"
  /\ serverClosed

\* C30: once the process has handled SIGTERM or SIGINT no probe timer is pending and
\* none is scheduled later, also when a probe or a re-registration was in flight when
\* the signal arrived.
C30_SignalCancelsTimer ==
  signals # {} => timers = 0

\* C31: a 401 answer on any registry call, the instance lookup getServices as well as
\* the health probe, makes the gateway drive re-registration: the status becomes
\* ATTEMPTING_REREGISTRATION and a register call follows, and the revoked credential is
\* not used for registry calls until a register succeeds.
C31_LookupUnauthorized ==
  [][\A r \in Reqs :
       (GetServicesFail(r) /\ response'[r].status = 401) =>
         /\ status' = "ATTEMPTING_REREGISTRATION"
         /\ hcPc' = "reregister"]_vars

\* C32: every call of handleRequest, in any gateway status and for any sequence of
\* registry and backend outcomes, ends with exactly one response emitted to the client:
\* never none and never more than one.
C32_ExactlyOneResponse ==
  /\ [](\A r \in Reqs : pc[r] # "unhandled")
  /\ [](\A r \in Reqs : pc[r] = "done" => response[r] # NoResponse)
  /\ [][\A r \in Reqs :
          response[r] # NoResponse => response'[r] \in {response[r], NoResponse}]_vars

\* the handler of request r has ended after forwarding, and its last outbound attempt
\* failed with a retryable error
EndedOnRetryableFailure(r) ==
  /\ pc[r] \in {"done", "unhandled"}
  /\ outbound[r] >= 1
  /\ outcome[r].kind # "resolved"
  /\ RetryableKind(outcome[r])

\* C33 as stated: a request causes at most maxRetries + 1 outbound requests; with
\* maxRetries = 0 exactly one is issued; and when every attempt fails with a retryable
\* error the client receives the shaped error of the last attempt.
C33_RetryBudget ==
  \A r \in Reqs :
    /\ outbound[r] <= retryStrategy.maxRetries + 1
    /\ (retryStrategy.maxRetries = 0 /\ pc[r] \in {"forward", "delay", "unhandled"}) =>
          outbound[r] = 1
    /\ EndedOnRetryableFailure(r) =>
          /\ pc[r] = "done"
          /\ response[r] = handleErrResponse(outcome[r])

\* C33 amended: a request causes at most maxRetries + 1 outbound requests; with
\* maxRetries = 0 exactly one is issued; and when all maxRetries + 1 attempts fail with
\* a retryable error the client receives the shaped error of the last attempt.
C33_RetryBudgetAmended ==
  \A r \in Reqs :
    /\ outbound[r] <= retryStrategy.maxRetries + 1
    /\ pc[r] = "forward" => outbound[r] = attempt[r] + 1
    /\ pc[r] = "delay" => outbound[r] = attempt[r]
    /\ (retryStrategy.maxRetries = 0 /\ pc[r] \in {"forward", "delay", "unhandled"}) =>
          outbound[r] = 1
    /\ (EndedOnRetryableFailure(r) /\ outbound[r] = retryStrategy.maxRetries + 1) =>
          /\ pc[r] = "done"
          /\ response[r] = handleErrResponse(outcome[r])

C33_Witness ==
  \E r \in Reqs :
    /\ EndedOnRetryableFailure(r)
    /\ retryStrategy.maxRetries = DefaultMaxRetries
    /\ outbound[r] = DefaultMaxRetries + 1
    /\ pc[r] = "done"
    /\ response[r] = handleErrResponse(outcome[r])

\* C34: no outbound backend attempt is started once totalRequestTimeout or more has
\* elapsed since the first attempt started, including after the backoff delay that
\* follows a failed attempt.
C34_NoAttemptAfterTotalTimeout ==
  [][\A r \in Reqs :
       (outbound[r] >= 1 /\ outbound'[r] > outbound[r]) =>
         elapsed'[r] < totalRequestTimeout]_vars

\* C35: in one health-check round a failed probe is retried at most 3 times, each retry
\* after a delay, so a round issues at most 4 probes; the fail strategy is applied only
\* after the initial probe and all 3 retries have failed; and the round always
\* terminates.
C35_ProbeRetryBudget ==
  /\ [](hcAttempts <= HealthCheckRetries)
  /\ [][ProbeDelayReturn =>
          /\ hcAttempts < HealthCheckRetries
          /\ hcAttempts' = hcAttempts + 1
          /\ hcPc' = "probe"]_vars
  /\ [][\A answer \in ProbeOutcomes \ {"UP", "401"} :
          (ProbeAnswered(answer) /\ hcAttempts < HealthCheckRetries) =>
            /\ hcPc' = "delay"
            /\ status' = "REGISTRY_HEALTH_CHECK_FAIL"
            /\ timers' = timers
            /\ sigterms' = sigterms
            /\ serverClosed' = serverClosed]_vars
  /\ (hcPc \in {"probe", "delay"}) ~> (hcPc \notin {"probe", "delay"})

C35_Witness ==
  /\ hcPc = "probe"
  /\ hcAttempts = HealthCheckRetries
  /\ status = "REGISTRY_HEALTH_CHECK_FAIL"
  /\ timers = 0

\* C36: a failed register leaves the gateway state unchanged: with the registration key
\* unset it throws before any network request, and when the registry call fails it
\* returns false; status, credential and probe timer keep their values (GATEWAY_STARTING
\* at startup, ATTEMPTING_REREGISTRATION during re-registration), and the credential
\* changes only on a successful register.
C36_FailedRegisterFrame ==
  /\ [][(Listen /\ ~registrationKey) =>
          /\ startPc' = "closed"
          /\ status' = "GATEWAY_STARTING"
          /\ UNCHANGED <<status, registryHeaders, timers>>]_vars
  /\ [][StartupRegisterFails =>
          /\ status' = "GATEWAY_STARTING"
          /\ UNCHANGED <<status, registryHeaders, timers>>]_vars
  /\ [][ReregisterFails =>
          /\ status = "ATTEMPTING_REREGISTRATION"
          /\ registryHeaders' = registryHeaders
          /\ rrAttempts < 3 => UNCHANGED <<status, timers>>]_vars
  /\ [][registryHeaders' # registryHeaders =>
          \E cred \in 1..MaxCreds :
            StartupRegisterSucceeds(cred) \/ ReregisterSucceeds(cred)]_vars

C36_Witness ==
  /\ hcPc = "rrdelay"
  /\ rrAttempts = 1
  /\ status = "ATTEMPTING_REREGISTRATION"
  /\ registryHeaders = 1
  /\ timers = 0

\* the probe answering UP restores the status and schedules exactly one probe
UpReschedulesOnce ==
  (ProbeAnswered("UP") /\ healthChecks) =>
    /\ status' = "GATEWAY_ACTIVE"
    /\ hcPc' = "idle"
    /\ timers = 0
    /\ timers' = 1

\* C37 as stated: with health checks enabled and strategy try-again, once every registry
\* probe answers UP, from any REGISTRY_HEALTH_CHECK_FAIL state the status eventually
\* becomes GATEWAY_ACTIVE again (the probe timer firing fairly), and each probe
\* answering UP is followed by exactly one rescheduled probe.
C37_RecoveryLiveness ==
  /\ ( /\ registryHealed
       /\ healthChecks
       /\ healthCheckFailStrategy = "try-again"
       /\ status = "REGISTRY_HEALTH_CHECK_FAIL" )
       ~> (status = "GATEWAY_ACTIVE")
  /\ [][UpReschedulesOnce]_vars

\* C37 amended: the same, as long as the process does not receive SIGTERM, whose
\* listener cancels the pending probe timer.
C37_RecoveryAmended ==
  /\ ( /\ registryHealed
       /\ healthChecks
       /\ healthCheckFailStrategy = "try-again"
       /\ status = "REGISTRY_HEALTH_CHECK_FAIL" )
       ~> (status = "GATEWAY_ACTIVE" \/ "SIGTERM" \in signals)
  /\ [][UpReschedulesOnce]_vars

C37_Witness ==
  /\ registryHealed
  /\ healthChecks
  /\ healthCheckFailStrategy = "try-again"
  /\ "SIGTERM" \notin signals
  /\ status = "GATEWAY_ACTIVE"
  /\ hcPc = "idle"
  /\ timers = 1
  /\ \E r \in Reqs : pc[r] = "done" /\ admit[r] = "REGISTRY_HEALTH_CHECK_FAIL"

\* C38: whenever the status is GATEWAY_ACTIVE the credential is defined, and every
\* registry call that carries the credential headers (getServices and the health probe)
\* is issued with a credential stored by a successful register from one registration
\* response.
C38_CredentialDefined ==
  /\ [](status = "GATEWAY_ACTIVE" => registryHeaders \in 1..registryCreds)
  /\ [](\A r \in Reqs : pc[r] = "lookup" => registryHeaders \in 1..registryCreds)
  /\ [](hcPc = "probe" => registryHeaders \in 1..registryCreds)
  /\ [][registryHeaders' # registryHeaders =>
          \E cred \in 1..MaxCreds :
            /\ StartupRegisterSucceeds(cred) \/ ReregisterSucceeds(cred)
            /\ registryHeaders' = cred]_vars

C38_Witness ==
  /\ hcPc = "probe"
  /\ registryHeaders = 2
  /\ status = "GATEWAY_ACTIVE"
  /\ \E r \in Reqs : pc[r] = "lookup"

\* C39: the process makes at most 3 register attempts at startup and stops at the first
\* success; if register throws (registration key unset) or all 3 attempts return false,
\* the server is closed, no probe timer is ever scheduled and the status never leaves
\* GATEWAY_STARTING.
C39_StartupRegistration ==
  /\ [](startAttempts <= 3)
  /\ [][\A cred \in 1..MaxCreds :
          StartupRegisterSucceeds(cred) =>
            startPc' = "done" /\ startAttempts' = startAttempts]_vars
  /\ [][startPc = "done" => (startPc' = "done" /\ startAttempts' = startAttempts)]_vars
  /\ [][(StartupRegisterFails /\ startAttempts = 3) => startPc' = "closed"]_vars
  /\ [][(Listen /\ ~registrationKey) => startPc' = "closed"]_vars
  /\ [](startPc = "closed" =>
          /\ serverClosed
          /\ status = "GATEWAY_STARTING"
          /\ registryHeaders = 0
          /\ timers = 0
          /\ hcPc = "idle")
  /\ [][startPc = "closed" => startPc' = "closed"]_vars

C39_Witness ==
  /\ registrationKey
  /\ startPc = "closed"
  /\ startAttempts = 3
  /\ serverClosed
  /\ status = "GATEWAY_STARTING"
  /\ \E r \in Reqs : pc[r] = "done" /\ admit[r] = "GATEWAY_STARTING"

\* C40: the sanity branch of checkRegistryHealth that throws Error("unreachable") is
\* never reached: after every probe outcome the pair (status, attempts) matches one of
\* the four handled cases, also while requests and registrations interleave.
C40_SanityUnreachable ==
  /\ hcPc # "unreachable"
  /\ hcPc = "probe" =>
       \A answer \in ProbeOutcomes :
         LET st == StatusAfterProbe(answer)
         IN \/ st = "GATEWAY_ACTIVE"
            \/ st = "REGISTRY_HEALTH_CHECK_FAIL" /\ hcAttempts < HealthCheckRetries
            \/ st = "ATTEMPTING_REREGISTRATION"
            \/ hcAttempts >= HealthCheckRetries

C40_Witness ==
  /\ hcPc = "delay"
  /\ hcAttempts = 2
  /\ status = "REGISTRY_HEALTH_CHECK_FAIL"
  /\ \E r \in Reqs : pc[r] = "lookup"

====
